---- MODULE Spec2Model ----
(***************************************************************************)
(* The Node Manager of ockam_api (nodes/service.rs): construction          *)
(* (NodeManager::create), the worker's start (Worker::initialize), and the *)
(* request router (Worker::handle_message / NodeManager::handle_request).  *)
(***************************************************************************)
EXTENDS Naturals, Sequences, FiniteSets, TLC

VARIABLES
    pc,        \* life cycle of the node process
    disk,      \* <node_dir>/config as persisted (NodeManConfig)
    nm,        \* the NodeManager aggregate (NoNM before create returns one)
    cr,        \* the last call of create: its arguments and its result
    services,  \* default services started by initialize_defaults, in order
    mailbox,   \* messages delivered to the worker and not yet handled
    sent,      \* messages sent by the worker with ctx.send, in order
    last,      \* what handle_message did with the last message it took
    delivered, \* number of messages delivered so far
    creates,   \* number of calls of create so far
    handling,  \* the message whose handle_message has not returned yet (Idle if none)
    log,       \* the messages submitted to the worker, in submission order
    config,    \* the Config handle of a running create: in-memory form and write lock
    cmd        \* the enroll command's run: terminal, embedded node, token polls

vars ==
    <<pc, disk, nm, cr, services, mailbox, sent, last, delivered, creates, handling, log, config,
      cmd>>

(***************************************************************************)
(* Bounds of the model.                                                    *)
(***************************************************************************)
MaxMsgs == 2
MaxCreates == 2
MaxTransportMsgs == 3
MaxPolls == 3

(***************************************************************************)
(* Values.                                                                 *)
(***************************************************************************)
None == "None"

\* Self::default_vault_path(&node_dir) and node_dir.join("authenticated_storage.lmdb")
DefaultVaultPath == "node_dir/vault"
DefaultLocation == "node_dir/authenticated_storage.lmdb"

\* what a config file found in the node directory may hold
PersistedVaultPaths == {"elsewhere/vault"}
PersistedIdentities == {"identity.persisted"}
PersistedStoragePaths == {"elsewhere/storage.lmdb"}

\* NodeManConfig: the fields create reads and writes
NodeManConfig(vp, id, asp, ovr) ==
    [vault_path |-> vp, identity |-> id,
     authenticated_storage_path |-> asp, identity_was_overridden |-> ovr]

\* Config::load on a directory without a config file
FreshConfig == NodeManConfig(None, None, None, FALSE)

\* Option<T> for the structured values (the strings use None)
Absent == [some |-> FALSE]
Some(v) == [some |-> TRUE, v |-> v]

\* IdentityOverride
IdentityOverride == [identity |-> "identity.override", vault_path |-> "default_node/vault"]
IdentityOverrides == {Absent, Some(IdentityOverride)}

\* AuthoritiesConfig: entries, each with identity bytes that import or do not
GoodAuthority == [identity |-> "authority.good", addr |-> "/dnsaddr/authority/tcp/4000"]
BadAuthority == [identity |-> "authority.malformed", addr |-> "/dnsaddr/other/tcp/4000"]
AuthoritiesConfigs ==
    {Absent, Some(<<>>), Some(<<GoodAuthority>>),
     Some(<<GoodAuthority, BadAuthority>>), Some(<<BadAuthority, GoodAuthority>>)}

ProjectIds == {None, "project.1"}

\* the api_transport argument of create, and the aliases random_alias may give
ApiTransport == <<"Tcp", "Listen", "127.0.0.1:4000">>
Aliases == {"alias.1", "alias.2"}
ApiAliases == {"alias.1"}

\* the collaborators of create whose failure create propagates with `?`
CreateFaults ==
    {"none", "persist_storage_path", "lmdb_new", "fs_copy", "persist_override",
     "file_storage_create", "identity_import", "load_controller_identity_id",
     "create_vault", "create_identity"}

(***************************************************************************)
(* Errors (ockam_core::Error): origin/kind and message.                    *)
(***************************************************************************)
Error(kind, msg) == [kind |-> kind, msg |-> msg]

\* ApiError::generic
ApiErrorGeneric(msg) == Error("Generic", msg)

\* map_anyhow_err
map_anyhow_err(msg) == Error("Internal", msg)

\* the error a failing collaborator hands back
CollaboratorError(what) == Error("Collaborator", what)

\* no error
NoError == Error(None, "")

(***************************************************************************)
(* NodeManager accessors.                                                  *)
(***************************************************************************)
NoNM == [present |-> FALSE]

Ok(v) == [ok |-> TRUE, value |-> v]
Err(e) == [ok |-> FALSE, error |-> e]

identity(s) ==
    IF s.identity # None THEN Ok(s.identity) ELSE Err(ApiErrorGeneric("Identity doesn't exist"))

vault(s) ==
    IF s.vault # None THEN Ok(s.vault) ELSE Err(ApiErrorGeneric("Vault doesn't exist"))

authorities(s) ==
    IF s.authorities.some THEN Ok(s.authorities.v)
    ELSE Err(ApiErrorGeneric("Authorities don't exist"))

project_id(s) ==
    IF s.project_id # None THEN Ok(s.project_id)
    ELSE Err(ApiErrorGeneric("Project id is not set"))

(***************************************************************************)
(* NodeManager::create, stage by stage.  A stage takes and returns the     *)
(* running state of the call: err (NoError while no `?` has returned), cfg *)
(* (the in-memory NodeManConfig), disk (the persisted one) and the values  *)
(* resolved so far.  `fault` names the collaborator that fails, if any.    *)
(***************************************************************************)
Fail(st, e) == [st EXCEPT !.err = e]

\* config.persist_config_updates(): the in-memory form is written to disk
persist_config_updates(st) == [st EXCEPT !.disk = st.cfg]

\* Config::<NodeManConfig>::load(&node_dir, "config")
LoadConfig(d) ==
    [err |-> NoError, cfg |-> d, disk |-> d, storage |-> None, vault |-> None, identity |-> None]

\* "Check if we had existing AuthenticatedStorage, create with default location otherwise"
ResolveAuthenticatedStorage(st, fault) ==
    LET p == st.cfg.authenticated_storage_path
        w == [st EXCEPT !.cfg.authenticated_storage_path = DefaultLocation]
        chosen == IF p # None THEN st
                  ELSE IF fault = "persist_storage_path"
                       THEN Fail(w, map_anyhow_err("persist_config_updates"))
                       ELSE persist_config_updates(w)
    IN  IF chosen.err # NoError THEN chosen
        ELSE IF fault = "lmdb_new" THEN Fail(chosen, CollaboratorError("LmdbStorage::new"))
        ELSE [chosen EXCEPT !.storage = chosen.cfg.authenticated_storage_path]

\* the override applied whether or not the config has a vault path
ApplyIdentityOverride_Always(st, identity_override, fault) ==
    IF identity_override.some
    THEN IF fault = "fs_copy"
         THEN Fail(st, ApiErrorGeneric("Error while copying default node"))
         ELSE LET w == [st EXCEPT !.cfg.vault_path = DefaultVaultPath,
                                  !.cfg.identity = identity_override.v.identity,
                                  !.cfg.identity_was_overridden = TRUE]
              IN  IF fault = "persist_override"
                  THEN Fail(w, map_anyhow_err("persist_config_updates"))
                  ELSE persist_config_updates(w)
    ELSE st

\* "Skip override if we already had vault"
ApplyIdentityOverride(st, identity_override, fault) ==
    IF st.cfg.vault_path = None /\ identity_override.some
    THEN IF fault = "fs_copy"
         THEN Fail(st, ApiErrorGeneric("Error while copying default node"))
         ELSE LET w == [st EXCEPT !.cfg.vault_path = DefaultVaultPath,
                                  !.cfg.identity = identity_override.v.identity,
                                  !.cfg.identity_was_overridden = TRUE]
              IN  IF fault = "persist_override"
                  THEN Fail(w, map_anyhow_err("persist_config_updates"))
                  ELSE persist_config_updates(w)
    ELSE st

\* "Check if we had existing Vault"
ResolveVault(st, fault) ==
    LET vault_path == st.cfg.vault_path
    IN  IF vault_path # None
        THEN IF fault = "file_storage_create"
             THEN Fail(st, CollaboratorError("FileStorage::create"))
             ELSE [st EXCEPT !.vault = vault_path]
        ELSE [st EXCEPT !.vault = None]

\* the identity taken from the config whether or not a vault was resolved
ResolveIdentity_NoVaultCheck(st, fault) ==
    LET identity_info == st.cfg.identity
    IN  IF identity_info # None
        THEN IF fault = "identity_import"
             THEN Fail(st, CollaboratorError("Identity::import"))
             ELSE [st EXCEPT !.identity = identity_info]
        ELSE [st EXCEPT !.identity = None]

\* "Check if we had existing Identity"
ResolveIdentity(st, fault) ==
    LET identity_info == st.cfg.identity
    IN  IF identity_info # None
        THEN IF st.vault # None
             THEN IF fault = "identity_import"
                  THEN Fail(st, CollaboratorError("Identity::import"))
                  ELSE [st EXCEPT !.identity = identity_info]
             ELSE [st EXCEPT !.identity = None]
        ELSE [st EXCEPT !.identity = None]

\* `&&` written for `||`
InvalidOptions_Both(enable_credential_checks, ac, pid) ==
    enable_credential_checks /\ (~ac.some /\ pid = None)

\* enable_credential_checks && (ac.is_none() || project_id.is_none())
InvalidOptions(enable_credential_checks, ac, pid) ==
    enable_credential_checks /\ (~ac.some \/ pid = None)

\* the project id left out of the check
ValidateOptions_OnlyAuthorities(st, enable_credential_checks, ac, pid) ==
    IF enable_credential_checks /\ ~ac.some
    THEN Fail(st, Error("Invalid", "Invalid NodeManager options"))
    ELSE st

ValidateOptions(st, enable_credential_checks, ac, pid) ==
    IF InvalidOptions(enable_credential_checks, ac, pid)
    THEN Fail(st, Error("Invalid", "Invalid NodeManager options"))
    ELSE st

\* a stage runs only if no earlier stage has returned an error
Then(st, next) == IF st.err # NoError THEN st ELSE next

\* Self::load_controller_identity_id()?
LoadControllerIdentityId(st, fault) ==
    IF fault = "load_controller_identity_id"
    THEN Fail(st, CollaboratorError("load_controller_identity_id"))
    ELSE st

\* the API transport left out of the transport map
Assemble_NoApiTransport(st, alias, api_transport, skip_defaults, enable_credential_checks, pid) ==
    [err |-> st.err,
     disk |-> st.disk,
     s |-> [present |-> TRUE,
            config |-> st.cfg,
            api_transport_id |-> alias,
            transports |-> [a \in {} |-> api_transport],
            skip_defaults |-> skip_defaults,
            enable_credential_checks |-> enable_credential_checks,
            vault |-> st.vault,
            identity |-> st.identity,
            project_id |-> pid,
            authorities |-> Absent,
            authenticated_storage |-> st.storage]]

\* let mut s = Self { ... }: from here the running state holds the aggregate s
Assemble(st, alias, api_transport, skip_defaults, enable_credential_checks, pid) ==
    [err |-> st.err,
     disk |-> st.disk,
     s |-> [present |-> TRUE,
            config |-> st.cfg,
            api_transport_id |-> alias,
            transports |-> (alias :> api_transport),
            skip_defaults |-> skip_defaults,
            enable_credential_checks |-> enable_credential_checks,
            vault |-> st.vault,
            identity |-> st.identity,
            project_id |-> pid,
            authorities |-> Absent,
            authenticated_storage |-> st.storage]]

(***************************************************************************)
(* Vault and identity creation (nodes/service/vault.rs, identity.rs).      *)
(* The running state is [err, s, disk].                                    *)
(***************************************************************************)
\* the aggregate's Config handle: write the in-memory form, then persist it
PersistAggregate(w) == [w EXCEPT !.disk = w.s.config]

create_vault_impl(w, path, reuse_if_exists, fault) ==
    IF w.s.vault # None
    THEN IF reuse_if_exists THEN w ELSE Fail(w, ApiErrorGeneric("Vault already exists"))
    ELSE IF fault = "create_vault" THEN Fail(w, CollaboratorError("FileStorage::create"))
    ELSE LET p == IF path = None THEN DefaultVaultPath ELSE path
         IN  PersistAggregate([w EXCEPT !.s.config.vault_path = p, !.s.vault = p])

create_identity_impl(w, reuse_if_exists, fault) ==
    IF w.s.identity # None
    THEN IF reuse_if_exists THEN w ELSE Fail(w, ApiErrorGeneric("Identity already exists"))
    ELSE IF ~vault(w.s).ok THEN Fail(w, vault(w.s).error)
    ELSE IF fault = "create_identity" THEN Fail(w, CollaboratorError("Identity::create"))
    ELSE PersistAggregate([w EXCEPT !.s.config.identity = "identity.created",
                                    !.s.identity = "identity.created"])

\* the identity left out of the defaults
create_defaults_VaultOnly(w, fault) == create_vault_impl(w, None, TRUE, fault)

\* the defaults created in the explicit mode
create_defaults_Explicit(w, fault) ==
    LET CreateIdentity(v) == Then(v, create_identity_impl(v, FALSE, fault))
    IN  CreateIdentity(create_vault_impl(w, None, FALSE, fault))

\* "Create default vault and identity, if they don't exists already"
create_defaults(w, fault) ==
    LET CreateIdentity(v) == Then(v, create_identity_impl(v, TRUE, fault))
    IN  CreateIdentity(create_vault_impl(w, None, TRUE, fault))

\* PublicIdentity::import(a.1.identity(), vault)
PublicIdentityImport(bytes) ==
    IF bytes = "authority.malformed"
    THEN Err(CollaboratorError("PublicIdentity::import"))
    ELSE Ok(bytes)

\* the loop of configure_authorities: v after entries i.. are pushed, or the error
RECURSIVE ImportAuthorities(_, _, _)
ImportAuthorities(entries, i, v) ==
    IF i > Len(entries) THEN Ok(v)
    ELSE LET r == PublicIdentityImport(entries[i].identity)
         IN  IF ~r.ok THEN r
             ELSE ImportAuthorities(entries, i + 1,
                      Append(v, [identity |-> r.value, addr |-> entries[i].addr]))

\* self.authorities assigned inside the loop, after every push
configure_authorities_Partial(w, ac) ==
    IF ~vault(w.s).ok THEN Fail(w, vault(w.s).error)
    ELSE LET r == ImportAuthorities(ac, 1, <<>>)
             imported == SelectSeq(ac, LAMBDA a : PublicIdentityImport(a.identity).ok)
         IN  IF ~r.ok THEN Fail([w EXCEPT !.s.authorities = Some(imported)], r.error)
             ELSE [w EXCEPT !.s.authorities = Some(r.value)]

configure_authorities(w, ac) ==
    IF ~vault(w.s).ok THEN Fail(w, vault(w.s).error)
    ELSE LET r == ImportAuthorities(ac, 1, <<>>)
         IN  IF ~r.ok THEN Fail(w, r.error)
             ELSE [w EXCEPT !.s.authorities = Some(r.value)]

\* the authorities configured before the defaults are created
Defaults_AuthoritiesFirst(w, skip_defaults, ac, fault) ==
    IF skip_defaults THEN w
    ELSE LET CreateDefaults(a) == Then(a, create_defaults(a, fault))
         IN  CreateDefaults(IF ac.some THEN configure_authorities(w, ac.v) ELSE w)

\* the defaults created and the authorities configured whatever skip_defaults is
Defaults_IgnoresSkipDefaults(w, skip_defaults, ac, fault) ==
    LET ConfigureAuthorities(d) ==
            Then(d, IF ac.some THEN configure_authorities(d, ac.v) ELSE d)
    IN  ConfigureAuthorities(create_defaults(w, fault))

\* if !skip_defaults { create_defaults; if let Some(ac) = ac { configure_authorities } }
Defaults(w, skip_defaults, ac, fault) ==
    IF skip_defaults THEN w
    ELSE LET ConfigureAuthorities(d) ==
                 Then(d, IF ac.some THEN configure_authorities(d, ac.v) ELSE d)
         IN  ConfigureAuthorities(create_defaults(w, fault))

\* the options validated first, before storage, vault and identity are resolved
create_ValidatesFirst(d, alias, identity_override, skip_defaults, enable_credential_checks, ac, pid, api_transport, fault) ==
    LET Stage1(st0) == Then(st0, ResolveAuthenticatedStorage(st0, fault))
        Stage2(st1) == Then(st1, ApplyIdentityOverride(st1, identity_override, fault))
        Stage3(st2) == Then(st2, ResolveVault(st2, fault))
        Stage4(st3) == Then(st3, ResolveIdentity(st3, fault))
        Stage6(st4) == Then(st4, LoadControllerIdentityId(st4, fault))
        OnReturn(r) ==
            [err |-> r.err, s |-> IF r.err # NoError THEN NoNM ELSE r.s,
             disk |-> r.disk, local |-> r.s]
        FromAssemble(st6) ==
            IF st6.err # NoError
            THEN [err |-> st6.err, s |-> NoNM, disk |-> st6.disk, local |-> NoNM]
            ELSE OnReturn(Defaults(Assemble(st6, alias, api_transport, skip_defaults,
                                            enable_credential_checks, pid),
                                   skip_defaults, ac, fault))
    IN  FromAssemble(Stage6(Stage4(Stage3(Stage2(Stage1(
            ValidateOptions(LoadConfig(d), enable_credential_checks, ac, pid)))))))

\* NodeManager::create: [err, s, disk, local] on return: s is the NodeManager
\* returned (NoNM with an error), local is the local `s` as it was when create
\* returned, which an Err return drops (NoNM if create returned before line 224)
create(d, alias, identity_override, skip_defaults, enable_credential_checks, ac, pid, api_transport, fault) ==
    LET Stage2(st1) == Then(st1, ApplyIdentityOverride(st1, identity_override, fault))
        Stage3(st2) == Then(st2, ResolveVault(st2, fault))
        Stage4(st3) == Then(st3, ResolveIdentity(st3, fault))
        Stage5(st4) == Then(st4, ValidateOptions(st4, enable_credential_checks, ac, pid))
        Stage6(st5) == Then(st5, LoadControllerIdentityId(st5, fault))
        OnReturn(r) ==
            [err |-> r.err, s |-> IF r.err # NoError THEN NoNM ELSE r.s,
             disk |-> r.disk, local |-> r.s]
        FromAssemble(st6) ==
            IF st6.err # NoError
            THEN [err |-> st6.err, s |-> NoNM, disk |-> st6.disk, local |-> NoNM]
            ELSE OnReturn(Defaults(Assemble(st6, alias, api_transport, skip_defaults,
                                            enable_credential_checks, pid),
                                   skip_defaults, ac, fault))
    IN  FromAssemble(Stage6(Stage5(Stage4(Stage3(Stage2(
            ResolveAuthenticatedStorage(LoadConfig(d), fault)))))))

(***************************************************************************)
(* NodeManager::initialize_defaults and Worker::initialize.                *)
(***************************************************************************)
\* DefaultAddress::*, in the order initialize_defaults starts them
DefaultServices ==
    <<"vault_service", "identity_service", "authenticated", "uppercase", "echo",
      "forwarding_service", "secure_channel_listener">>
CredentialService == "credentials"

InitializeFaults == {"none"} \cup {DefaultServices[i] : i \in DOMAIN DefaultServices}
                        \cup {CredentialService}

\* a start whose error does not end initialize_defaults
StartService_KeepsGoing(r, name, fault) ==
    IF fault = name THEN [r EXCEPT !.err = CollaboratorError(name)]
    ELSE [r EXCEPT !.started = Append(r.started, name)]

\* one start_*_impl(...).await?: the service is started unless its start fails
StartService(r, name, fault) ==
    IF r.err # NoError THEN r
    ELSE IF fault = name THEN [r EXCEPT !.err = CollaboratorError(name)]
    ELSE [r EXCEPT !.started = Append(r.started, name)]

RECURSIVE StartInOrder(_, _, _, _)
StartInOrder(r, names, i, fault) ==
    IF i > Len(names) THEN r
    ELSE StartInOrder(StartService(r, names[i], fault), names, i + 1, fault)

\* the credential service started under enable_credential_checks instead
initialize_defaults_OnlyWithChecks(s, fault) ==
    LET r == StartInOrder([err |-> NoError, started |-> <<>>], DefaultServices, 1, fault)
    IN  IF s.enable_credential_checks THEN StartService(r, CredentialService, fault) ELSE r

\* initialize_defaults: [err, started]
initialize_defaults(s, fault) ==
    LET r == StartInOrder([err |-> NoError, started |-> <<>>], DefaultServices, 1, fault)
    IN  IF authorities(s).ok THEN StartService(r, CredentialService, fault) ELSE r

\* initialize_defaults called whatever skip_defaults is
initialize_Always(s, fault) == initialize_defaults(s, fault)

\* Worker::initialize
initialize(s, fault) ==
    IF ~s.skip_defaults THEN initialize_defaults(s, fault)
    ELSE [err |-> NoError, started |-> <<>>]

(***************************************************************************)
(* Requests and responses (ockam_core::api).                               *)
(***************************************************************************)
Methods == {"Get", "Post", "Put", "Delete"}

\* Status::Ok, Status::BadRequest, Status::NotFound, Status::InternalServerError
StatusOk == 200
StatusBadRequest == 400
StatusNotFound == 404
InternalServerError == 500

Response(id, status, body) == [id |-> id, status |-> status, body |-> body]

\* req.path() of the path with segments `path`: "/" before every segment
RECURSIVE PathString(_)
PathString(path) ==
    IF path = <<>> THEN "" ELSE "/" \o Head(path) \o PathString(Tail(path))

\* the segments from the n-th on, joined again with "/"
RECURSIVE JoinFrom(_, _)
JoinFrom(path, n) ==
    IF n >= Len(path) THEN path[n] ELSE path[n] \o "/" \o JoinFrom(path, n + 1)

\* req.path_segments::<5>(): at most MaxSegments segments, the last one holding
\* the rest of the path
MaxSegments == 5
path_segments(path) ==
    IF Len(path) <= MaxSegments THEN path
    ELSE SubSeq(path, 1, MaxSegments - 1) \o <<JoinFrom(path, MaxSegments)>>

(***************************************************************************)
(* The match of handle_request: its arms in source order.  AnySegment     *)
(* stands for a segment bound to a name (id, project_id, ...).             *)
(***************************************************************************)
AnySegment == "*"
Arm(m, p, h) == [m |-> m, p |-> p, h |-> h]

Arms ==
    <<
      Arm("Get", <<"node">>, "node_status"),
      Arm("Get", <<"node", "tcp", "connection">>, "get_tcp_con_or_list.Connect"),
      Arm("Post", <<"node", "tcp", "connection">>, "add_transport"),
      Arm("Delete", <<"node", "tcp", "connection">>, "delete_transport"),
      Arm("Get", <<"node", "tcp", "listener">>, "get_tcp_con_or_list.Listen"),
      Arm("Post", <<"node", "tcp", "listener">>, "add_transport"),
      Arm("Delete", <<"node", "tcp", "listener">>, "delete_transport"),
      Arm("Post", <<"node", "vault">>, "create_vault"),
      Arm("Post", <<"node", "identity">>, "create_identity"),
      Arm("Post", <<"node", "identity", "actions", "show", "short">>, "short_identity"),
      Arm("Post", <<"node", "identity", "actions", "show", "long">>, "long_identity"),
      Arm("Post", <<"node", "credentials", "actions", "get">>, "get_credential"),
      Arm("Post", <<"node", "credentials", "actions", "present">>, "present_credential"),
      Arm("Get", <<"node", "secure_channel">>, "list_secure_channels"),
      Arm("Get", <<"node", "secure_channel_listener">>, "list_secure_channel_listener"),
      Arm("Post", <<"node", "secure_channel">>, "create_secure_channel"),
      Arm("Delete", <<"node", "secure_channel">>, "delete_secure_channel"),
      Arm("Get", <<"node", "show_secure_channel">>, "show_secure_channel"),
      Arm("Post", <<"node", "secure_channel_listener">>, "create_secure_channel_listener"),
      Arm("Post", <<"node", "services", "vault">>, "start_vault_service"),
      Arm("Post", <<"node", "services", "identity">>, "start_identity_service"),
      Arm("Post", <<"node", "services", "authenticated">>, "start_authenticated_service"),
      Arm("Post", <<"node", "services", "uppercase">>, "start_uppercase_service"),
      Arm("Post", <<"node", "services", "echo">>, "start_echoer_service"),
      Arm("Post", <<"node", "services", "authenticator">>, "start_authenticator_service"),
      Arm("Post", <<"node", "services", "verifier">>, "start_verifier_service"),
      Arm("Post", <<"node", "services", "credentials">>, "start_credentials_service"),
      Arm("Post", <<"node", "forwarder">>, "create_forwarder"),
      Arm("Get", <<"node", "inlet">>, "get_inlets"),
      Arm("Get", <<"node", "outlet">>, "get_outlets"),
      Arm("Post", <<"node", "inlet">>, "create_inlet"),
      Arm("Post", <<"node", "outlet">>, "create_outlet"),
      Arm("Delete", <<"node", "portal">>, "todo"),
      Arm("Post", <<"v0", "spaces">>, "create_space"),
      Arm("Get", <<"v0", "spaces">>, "list_spaces"),
      Arm("Get", <<"v0", "spaces", AnySegment>>, "get_space"),
      Arm("Delete", <<"v0", "spaces", AnySegment>>, "delete_space"),
      Arm("Post", <<"v0", "project-enrollers", AnySegment>>, "add_project_enroller"),
      Arm("Get", <<"v0", "project-enrollers", AnySegment>>, "list_project_enrollers"),
      Arm("Delete", <<"v0", "project-enrollers", AnySegment, AnySegment>>, "delete_project_enroller"),
      Arm("Post", <<"v0", "projects", AnySegment>>, "create_project"),
      Arm("Get", <<"v0", "projects">>, "list_projects"),
      Arm("Get", <<"v0", "projects", AnySegment>>, "get_project"),
      Arm("Delete", <<"v0", "projects", AnySegment, AnySegment>>, "delete_project"),
      Arm("Post", <<"v0", "enroll", "auth0">>, "enroll_auth0"),
      Arm("Get", <<"v0", "enroll", "token">>, "generate_enrollment_token"),
      Arm("Put", <<"v0", "enroll", "token">>, "authenticate_enrollment_token"),
      Arm("Post", <<"subscription">>, "activate_subscription"),
      Arm("Get", <<"subscription", AnySegment>>, "get_subscription"),
      Arm("Get", <<"subscription">>, "list_subscriptions"),
      Arm("Put", <<"subscription", AnySegment, "contact_info">>, "update_subscription_contact_info"),
      Arm("Put", <<"subscription", AnySegment, "space_id">>, "update_subscription_space"),
      Arm("Put", <<"subscription", AnySegment, "unsubscribe">>, "unsubscribe"),
      Arm("Post", <<"v0", "message">>, "send_message")
    >>

\* the method left out of the match
Matches_AnyMethod(arm, method, segments) ==
    /\ Len(arm.p) = Len(segments)
    /\ \A i \in 1..Len(segments) : arm.p[i] = AnySegment \/ arm.p[i] = segments[i]

\* a slice pattern taken for a prefix pattern: longer paths match too
Matches_Prefix(arm, method, segments) ==
    /\ arm.m = method
    /\ Len(arm.p) <= Len(segments)
    /\ \A i \in 1..Len(arm.p) : arm.p[i] = AnySegment \/ arm.p[i] = segments[i]

\* a slice pattern matches a slice of the same length with equal literals
Matches(arm, method, segments) ==
    /\ arm.m = method
    /\ Len(arm.p) = Len(segments)
    /\ \A i \in 1..Len(segments) : arm.p[i] = AnySegment \/ arm.p[i] = segments[i]

\* the index of the arm taken: the first that matches, or 0 for the `_` arm
MatchArm(method, segments) ==
    IF \E i \in DOMAIN Arms : Matches(Arms[i], method, segments)
    THEN CHOOSE i \in DOMAIN Arms :
            /\ Matches(Arms[i], method, segments)
            /\ \A j \in 1..(i - 1) : ~Matches(Arms[j], method, segments)
    ELSE 0

CatchAll == "catch_all"
HandlerOf(i) == IF i = 0 THEN CatchAll ELSE Arms[i].h

(***************************************************************************)
(* The handlers.  A handler returns [tag, resp, error, s, disk]: tag "ok"  *)
(* with the response, "err" with the error, or "panic".  env holds what    *)
(* the handler gets from outside: whether its collaborator fails, and the  *)
(* alias it decodes from the body or draws with random_alias.              *)
(***************************************************************************)
NoResponse == [id |-> 0, status |-> 0, body |-> [text |-> ""]]

Envs == [fail : BOOLEAN, alias : Aliases]

HandlerOk(resp, s, d) ==
    [tag |-> "ok", resp |-> resp, error |-> NoError, s |-> s, disk |-> d, arm |-> 0]
HandlerErr(e, s, d) ==
    [tag |-> "err", resp |-> NoResponse, error |-> e, s |-> s, disk |-> d, arm |-> 0]
HandlerPanic(s, d) ==
    [tag |-> "panic", resp |-> NoResponse, error |-> NoError, s |-> s, disk |-> d, arm |-> 0]

\* (Get, ["node"]): Response::ok(req.id()).body(NodeStatus::new(...))
node_status(s, d, req, env) ==
    IF env.fail THEN HandlerErr(CollaboratorError("list_workers"), s, d)
    ELSE HandlerOk(Response(req.id, StatusOk,
                            [status |-> "Running",
                             transports |-> Cardinality(DOMAIN s.transports)]), s, d)

\* self.create_vault(req, dec): the explicit mode of create_vault_impl
create_vault(s, d, req, env) ==
    LET w == create_vault_impl([err |-> NoError, s |-> s, disk |-> d], None, FALSE,
                               IF env.fail THEN "create_vault" ELSE "none")
    IN  IF w.err # NoError THEN HandlerErr(w.err, w.s, w.disk)
        ELSE HandlerOk(Response(req.id, StatusOk, [text |-> "create_vault"]), w.s, w.disk)

\* self.create_identity(ctx, req): the explicit mode of create_identity_impl
create_identity(s, d, req, env) ==
    LET w == create_identity_impl([err |-> NoError, s |-> s, disk |-> d], FALSE,
                                  IF env.fail THEN "create_identity" ELSE "none")
    IN  IF w.err # NoError THEN HandlerErr(w.err, w.s, w.disk)
        ELSE HandlerOk(Response(req.id, StatusOk, [text |-> "create_identity"]), w.s, w.disk)

\* self.get_tcp_con_or_list(req, mode): the transports of that mode
get_tcp_con_or_list(s, d, req, mode) ==
    HandlerOk(Response(req.id, StatusOk,
                       [list |-> {a \in DOMAIN s.transports : s.transports[a][2] = mode}]),
              s, d)

\* self.add_transport(req, dec): a fresh random alias is inserted
add_transport(s, d, req, env, mode) ==
    IF env.fail THEN HandlerErr(CollaboratorError("tcp_transport"), s, d)
    ELSE LET t == [a \in DOMAIN s.transports \cup {env.alias} |->
                      IF a = env.alias THEN <<"Tcp", mode, "127.0.0.1:5000">>
                      ELSE s.transports[a]]
         IN  HandlerOk(Response(req.id, StatusOk, [text |-> env.alias]),
                       [s EXCEPT !.transports = t], d)

\* self.delete_transport(req, dec): the alias of the body is removed
delete_transport(s, d, req, env) ==
    IF env.alias \notin DOMAIN s.transports
    THEN HandlerOk(Response(req.id, StatusNotFound, [text |-> env.alias]), s, d)
    ELSE IF env.fail THEN HandlerErr(CollaboratorError("tcp_transport"), s, d)
    ELSE HandlerOk(Response(req.id, StatusOk, [text |-> env.alias]),
                   [s EXCEPT !.transports =
                       [a \in DOMAIN s.transports \ {env.alias} |-> s.transports[a]]], d)

\* any other handler: it answers the request or returns its collaborator's error
other_handler(s, d, req, env, h) ==
    IF env.fail THEN HandlerErr(CollaboratorError(h), s, d)
    ELSE HandlerOk(Response(req.id, StatusOk, [text |-> h]), s, d)

\* the `_` arm answering without the request's id
invalid_endpoint_NoId(s, d, req) ==
    HandlerOk(Response(0, StatusBadRequest,
                       [text |-> "Invalid endpoint: " \o PathString(req.path)]), s, d)

\* the `_` arm: Response::bad_request(req.id()).body(format!("Invalid endpoint: {}", path))
invalid_endpoint(s, d, req) ==
    HandlerOk(Response(req.id, StatusBadRequest,
                       [text |-> "Invalid endpoint: " \o PathString(req.path)]), s, d)

\* the Delete arms of the transports calling add_transport, like the Post arms
RunArm_DeleteAdds(s, d, req, env, h) ==
    CASE h = CatchAll -> invalid_endpoint(s, d, req)
      [] h = "node_status" -> node_status(s, d, req, env)
      [] h = "todo" -> HandlerPanic(s, d)
      [] h = "create_vault" -> create_vault(s, d, req, env)
      [] h = "create_identity" -> create_identity(s, d, req, env)
      [] h = "get_tcp_con_or_list.Connect" -> get_tcp_con_or_list(s, d, req, "Connect")
      [] h = "get_tcp_con_or_list.Listen" -> get_tcp_con_or_list(s, d, req, "Listen")
      [] h \in {"add_transport", "delete_transport"} ->
            add_transport(s, d, req, env, IF req.path[3] = "listener" THEN "Listen" ELSE "Connect")
      [] OTHER -> other_handler(s, d, req, env, h)

\* the body of the arm taken
RunArm(s, d, req, env, h) ==
    CASE h = CatchAll -> invalid_endpoint(s, d, req)
      [] h = "node_status" -> node_status(s, d, req, env)
      [] h = "todo" -> HandlerPanic(s, d)
      [] h = "create_vault" -> create_vault(s, d, req, env)
      [] h = "create_identity" -> create_identity(s, d, req, env)
      [] h = "get_tcp_con_or_list.Connect" -> get_tcp_con_or_list(s, d, req, "Connect")
      [] h = "get_tcp_con_or_list.Listen" -> get_tcp_con_or_list(s, d, req, "Listen")
      [] h = "add_transport" ->
            add_transport(s, d, req, env, IF req.path[3] = "listener" THEN "Listen" ELSE "Connect")
      [] h = "delete_transport" -> delete_transport(s, d, req, env)
      [] OTHER -> other_handler(s, d, req, env, h)

\* NodeManager::handle_request
handle_request(s, d, req, env) ==
    IF req.method = None
    THEN [HandlerPanic(s, d) EXCEPT !.arm = 0]
    ELSE LET Taken(i) == [RunArm(s, d, req, env, HandlerOf(i)) EXCEPT !.arm = i]
         IN  Taken(MatchArm(req.method, path_segments(req.path)))

(***************************************************************************)
(* Worker::handle_message.                                                 *)
(***************************************************************************)
Request(id, method, path, rr) ==
    [kind |-> "request", id |-> id, method |-> method, path |-> path, rr |-> rr]

\* a body that does not decode as a Request
Garbage(rr) == [kind |-> "garbage", id |-> 0, method |-> None, path |-> <<>>, rr |-> rr]

NoSend == <<>>
Send(route, r) == <<[to |-> route, resp |-> r]>>

\* the error reported as a bad request
ErrorResponse_BadRequest(req, err) ==
    Response(req.id, StatusBadRequest, [text |-> "Failed to handle request: " \o err.msg])

\* the `Err(err)` arm: the response that carries the error
ErrorResponse(req, err) ==
    Response(req.id, InternalServerError, [text |-> "Failed to handle request: " \o err.msg])

\* a decode failure answered with an error response
handle_message_ReplyOnDecodeError(s, d, msg, env) ==
    IF msg.kind # "request"
    THEN [ret |-> "Ok",
          send |-> Send(msg.rr, Response(0, StatusBadRequest, [text |-> "Failed to decode request"])),
          s |-> s, disk |-> d, outcome |-> "undecodable", arm |-> 0, error |-> NoError]
    ELSE LET Returned(r) ==
               CASE r.tag = "ok" ->
                    [ret |-> "Ok", send |-> Send(msg.rr, r.resp), s |-> r.s,
                     disk |-> r.disk, outcome |-> "handled", arm |-> r.arm, error |-> NoError]
               [] r.tag = "err" ->
                    [ret |-> "Ok", send |-> Send(msg.rr, ErrorResponse(msg, r.error)),
                     s |-> r.s, disk |-> r.disk, outcome |-> "failed", arm |-> r.arm,
                     error |-> r.error]
               [] OTHER ->
                    [ret |-> "panic", send |-> NoSend, s |-> r.s, disk |-> r.disk,
                     outcome |-> "panicked", arm |-> r.arm, error |-> NoError]
         IN  Returned(handle_request(s, d, msg, env))

\* a handler's error taken as a reason to forget the authorities
handle_message_ForgetsAuthorities(s, d, msg, env) ==
    IF msg.kind # "request"
    THEN [ret |-> "Ok", send |-> NoSend, s |-> s, disk |-> d,
          outcome |-> "undecodable", arm |-> 0, error |-> NoError]
    ELSE LET Returned(r) ==
               CASE r.tag = "ok" ->
                    [ret |-> "Ok", send |-> Send(msg.rr, r.resp), s |-> r.s,
                     disk |-> r.disk, outcome |-> "handled", arm |-> r.arm, error |-> NoError]
               [] r.tag = "err" ->
                    [ret |-> "Ok", send |-> Send(msg.rr, ErrorResponse(msg, r.error)),
                     s |-> [r.s EXCEPT !.authorities = Absent], disk |-> r.disk,
                     outcome |-> "failed", arm |-> r.arm, error |-> r.error]
               [] OTHER ->
                    [ret |-> "panic", send |-> NoSend, s |-> r.s, disk |-> r.disk,
                     outcome |-> "panicked", arm |-> r.arm, error |-> NoError]
         IN  Returned(handle_request(s, d, msg, env))

\* handle_message: [ret, send, s, disk, outcome, arm, error]
handle_message(s, d, msg, env) ==
    IF msg.kind # "request"
    THEN [ret |-> "Ok", send |-> NoSend, s |-> s, disk |-> d,
          outcome |-> "undecodable", arm |-> 0, error |-> NoError]
    ELSE LET Returned(r) ==
               CASE r.tag = "ok" ->
                    [ret |-> "Ok", send |-> Send(msg.rr, r.resp), s |-> r.s,
                     disk |-> r.disk, outcome |-> "handled", arm |-> r.arm, error |-> NoError]
               [] r.tag = "err" ->
                    [ret |-> "Ok", send |-> Send(msg.rr, ErrorResponse(msg, r.error)),
                     s |-> r.s, disk |-> r.disk, outcome |-> "failed", arm |-> r.arm,
                     error |-> r.error]
               [] OTHER ->
                    [ret |-> "panic", send |-> NoSend, s |-> r.s, disk |-> r.disk,
                     outcome |-> "panicked", arm |-> r.arm, error |-> NoError]
         IN  Returned(handle_request(s, d, msg, env))

(***************************************************************************)
(* The life cycle of one node process: create is called on the node        *)
(* directory, the worker is started, and it serves its mailbox.            *)
(***************************************************************************)
NoCall == [called |-> FALSE]
NoMessage == [outcome |-> "none"]

\* no handle_message is running
Idle == [kind |-> "idle"]

\* no create is running: there is no Config handle
NoConfig == [loaded |-> FALSE]
NoCommand == [fn |-> "none"]

\* the callers of the model and the requests they send
Callers == {[id |-> 1, rr |-> "client.a"], [id |-> 2, rr |-> "client.b"]}

Inbox ==
    {Garbage("client.a"),
     Request(1, None, <<"node">>, "client.a"),
     Request(1, "Get", <<"node">>, "client.a"),
     Request(2, "Get", <<"nowhere">>, "client.b"),
     Request(2, "Post", <<"node", "vault">>, "client.b"),
     Request(1, "Post", <<"node", "identity">>, "client.a"),
     Request(2, "Delete", <<"node", "portal">>, "client.b")}

ConfigFiles ==
    {NodeManConfig(vp, id, asp, FALSE) :
        vp \in {None} \cup PersistedVaultPaths,
        id \in {None} \cup PersistedIdentities,
        asp \in {None} \cup PersistedStoragePaths}

Init ==
    /\ pc = "start"
    /\ disk \in ConfigFiles
    /\ nm = NoNM
    /\ cr = NoCall
    /\ services = <<>>
    /\ mailbox = <<>>
    /\ sent = <<>>
    /\ last = NoMessage
    /\ delivered = 0
    /\ creates = 0
    /\ handling = Idle
    /\ log = <<>>
    /\ cmd = NoCommand
    /\ config = NoConfig

Create(alias, identity_override, skip_defaults, enable_credential_checks, ac, pid, fault) ==
    /\ pc = "start"
    /\ creates < MaxCreates
    /\ \E r \in {create(disk, alias, identity_override, skip_defaults,
                       enable_credential_checks, ac, pid, ApiTransport, fault)} :
           /\ disk' = r.disk
           /\ nm' = r.s
           /\ pc' = IF r.err = NoError THEN "created" ELSE "create_failed"
           /\ cr' = [called |-> TRUE,
                     before |-> disk,
                     alias |-> alias,
                     identity_override |-> identity_override,
                     skip_defaults |-> skip_defaults,
                     enable_credential_checks |-> enable_credential_checks,
                     ac |-> ac,
                     project_id |-> pid,
                     fault |-> fault,
                     err |-> r.err,
                     local |-> r.local]
    /\ creates' = creates + 1
    /\ UNCHANGED <<services, mailbox, sent, last, delivered, handling, log, config, cmd>>

\* create's call is over; the worker's initialize has returned err
Initialized(err) == [called |-> FALSE, initialize |-> err]

\* ctx.start_worker(node_manager, node_man): the worker's initialize runs, and
\* the worker serves its mailbox if it returned Ok
Initialize(fault) ==
    /\ pc = "created"
    /\ \E r \in {initialize(nm, fault)} :
           /\ services' = r.started
           /\ pc' = IF r.err = NoError THEN "serving" ELSE "initialize_failed"
           /\ cr' = Initialized(r.err)
    /\ UNCHANGED <<disk, nm, mailbox, sent, last, delivered, creates, handling, log, config, cmd>>

\* a caller's message reaches the worker's mailbox
Deliver(msg) ==
    /\ pc = "serving"
    /\ delivered < MaxMsgs
    /\ mailbox' = Append(mailbox, msg)
    /\ delivered' = delivered + 1
    /\ UNCHANGED <<pc, disk, nm, cr, services, sent, last, creates, handling, log, config, cmd>>

\* the worker takes the next message of its mailbox and runs handle_message on it
HandleMessage(env) ==
    /\ pc = "serving"
    /\ mailbox # <<>>
    /\ \E msg \in {Head(mailbox)} : \E o \in {handle_message(nm, disk, msg, env)} :
           /\ nm' = o.s
           /\ disk' = o.disk
           /\ sent' = sent \o o.send
           /\ pc' = IF o.ret = "panic" THEN "panicked" ELSE "serving"
           /\ last' = [outcome |-> o.outcome, msg |-> msg, arm |-> o.arm, ret |-> o.ret,
                       error |-> o.error]
    /\ mailbox' = Tail(mailbox)
    /\ UNCHANGED <<cr, services, delivered, creates, handling, log, config, cmd>>

CreateStep ==
    \E alias \in ApiAliases, io \in IdentityOverrides, sd \in BOOLEAN, ecc \in BOOLEAN,
       ac \in AuthoritiesConfigs, pid \in ProjectIds, fault \in CreateFaults :
        Create(alias, io, sd, ecc, ac, pid, fault)

InitializeStep == \E fault \in InitializeFaults : Initialize(fault)

DeliverStep == \E msg \in Inbox : Deliver(msg)

HandleStep == \E env \in Envs : HandleMessage(env)

Next == CreateStep \/ InitializeStep \/ DeliverStep \/ HandleStep

Spec == Init /\ [][Next]_vars

(***************************************************************************)
(* The node directory over several runs: the process ends and create is    *)
(* called again on what the earlier runs persisted.                        *)
(***************************************************************************)
\* no call of create in this run yet; the last run's create had returned Ok or not
Ended(ok) == [called |-> FALSE, succeeded |-> ok]

Restart ==
    /\ pc # "start"
    /\ creates < MaxCreates
    /\ pc' = "start"
    /\ nm' = NoNM
    /\ cr' = Ended(cr.called /\ cr.err = NoError)
    /\ services' = <<>>
    /\ mailbox' = <<>>
    /\ sent' = <<>>
    /\ last' = NoMessage
    /\ delivered' = 0
    /\ UNCHANGED <<disk, creates, handling, log, config, cmd>>

CreateNext == CreateStep \/ Restart

SpecCreate == Init /\ [][CreateNext]_vars

(***************************************************************************)
(* The router alone: the worker of tests::NodeManager::test_create with    *)
(* one message in its mailbox, drawn from every method and every path of   *)
(* the match, their prefixes and their extensions.                         *)
(***************************************************************************)
\* NodeManager::test_create: [err, s, disk]
test_create ==
    LET Result(i) == [err |-> i.err, s |-> i.s, disk |-> i.disk]
    IN  Result(create_identity_impl(
                   create_vault_impl(
                       create(FreshConfig, "alias.1", Absent, TRUE, FALSE, Absent, None,
                              ApiTransport, "none"),
                       None, FALSE, "none"),
                   FALSE, "none"))

Instantiate(p) == [i \in DOMAIN p |-> IF p[i] = AnySegment THEN "id.1" ELSE p[i]]

ArmPaths == {Instantiate(Arms[i].p) : i \in DOMAIN Arms}

AllPaths ==
    ArmPaths
    \cup {SubSeq(p, 1, Len(p) - 1) : p \in ArmPaths}
    \cup {Append(p, "extra") : p \in ArmPaths}
    \cup {<<"nowhere">>, <<"node", "show_secure_channel", "id.1">>}

AllMessages ==
    {Garbage(c.rr) : c \in Callers}
    \cup {Request(c.id, m, p, c.rr) : c \in Callers, m \in Methods \cup {None}, p \in AllPaths}

RouterInit ==
    /\ pc = "serving"
    /\ \E t \in {test_create} :
          /\ nm = t.s
          /\ disk = t.disk
          /\ services = initialize(t.s, "none").started
    /\ cr = NoCall
    /\ \E msg \in AllMessages : mailbox = <<msg>>
    /\ sent = <<>>
    /\ last = NoMessage
    /\ delivered = 1
    /\ creates = 1
    /\ handling = Idle
    /\ log = <<>>
    /\ cmd = NoCommand
    /\ config = NoConfig

RouterNext == HandleStep

SpecRouter == RouterInit /\ [][RouterNext]_vars

(***************************************************************************)
(* The mailbox: callers submit messages while the worker runs one          *)
(* handle_message at a time (`&mut self`), which may wait at its awaits.   *)
(* The worker is the one of tests::NodeManager::test_create.               *)
(***************************************************************************)
MailboxInit ==
    /\ pc = "serving"
    /\ \E t \in {test_create} :
          /\ nm = t.s
          /\ disk = t.disk
          /\ services = initialize(t.s, "none").started
    /\ cr = NoCall
    /\ mailbox = <<>>
    /\ sent = <<>>
    /\ last = NoMessage
    /\ delivered = 0
    /\ creates = 1
    /\ handling = Idle
    /\ log = <<>>
    /\ cmd = NoCommand
    /\ config = NoConfig

\* a caller's message is appended to the worker's mailbox
Submit(msg) ==
    /\ delivered < MaxMsgs
    /\ mailbox' = Append(mailbox, msg)
    /\ log' = Append(log, msg)
    /\ delivered' = delivered + 1
    /\ UNCHANGED <<pc, disk, nm, cr, services, sent, last, creates, handling, config, cmd>>

\* the worker's loop takes the oldest message and calls handle_message, which
\* borrows the worker exclusively until it returns
Receive ==
    /\ pc = "serving"
    /\ handling.kind = "idle"
    /\ mailbox # <<>>
    /\ handling' = Head(mailbox)
    /\ mailbox' = Tail(mailbox)
    /\ UNCHANGED <<pc, disk, nm, cr, services, sent, last, delivered, creates, log, config, cmd>>

\* handle_message returning with its response not sent yet
Complete_ReturnsBeforeSend(env) ==
    /\ pc = "serving"
    /\ handling.kind # "idle"
    /\ \E o \in {handle_message(nm, disk, handling, env)} :
           /\ nm' = o.s
           /\ disk' = o.disk
           /\ pc' = IF o.ret = "panic" THEN "panicked" ELSE "serving"
           /\ last' = [outcome |-> o.outcome, msg |-> handling, arm |-> o.arm, ret |-> o.ret,
                       error |-> o.error]
    /\ handling' = Idle
    /\ UNCHANGED <<cr, services, mailbox, sent, delivered, creates, log, config, cmd>>

\* handle_message runs to its end: the handler's awaits are over, the response
\* is sent and handle_message returns (or the handler panics)
Complete(env) ==
    /\ pc = "serving"
    /\ handling.kind # "idle"
    /\ \E o \in {handle_message(nm, disk, handling, env)} :
           /\ nm' = o.s
           /\ disk' = o.disk
           /\ sent' = sent \o o.send
           /\ pc' = IF o.ret = "panic" THEN "panicked" ELSE "serving"
           /\ last' = [outcome |-> o.outcome, msg |-> handling, arm |-> o.arm, ret |-> o.ret,
                       error |-> o.error]
    /\ handling' = Idle
    /\ UNCHANGED <<cr, services, mailbox, delivered, creates, log, config, cmd>>

SubmitStep == \E msg \in Inbox : Submit(msg)

CompleteStep == \E env \in Envs : Complete(env)

MailboxNext == SubmitStep \/ Receive \/ CompleteStep

SpecMailbox == MailboxInit /\ [][MailboxNext]_vars

(***************************************************************************)
(* The transport requests: the worker of tests::NodeManager::test_create   *)
(* serving requests on /node/tcp/connection and /node/tcp/listener.        *)
(***************************************************************************)
TransportInbox ==
    {Request(1, "Post", <<"node", "tcp", "connection">>, "client.a"),
     Request(2, "Post", <<"node", "tcp", "listener">>, "client.b"),
     Request(2, "Delete", <<"node", "tcp", "connection">>, "client.b"),
     Request(1, "Get", <<"node", "tcp", "connection">>, "client.a"),
     Request(2, "Get", <<"node", "tcp", "listener">>, "client.b")}

\* a caller's transport request is appended to the worker's mailbox
SubmitTransport(msg) ==
    /\ pc = "serving"
    /\ delivered < MaxTransportMsgs
    /\ mailbox' = Append(mailbox, msg)
    /\ log' = Append(log, msg)
    /\ delivered' = delivered + 1
    /\ UNCHANGED <<pc, disk, nm, cr, services, sent, last, creates, handling, config, cmd>>

SubmitTransportStep == \E msg \in TransportInbox : SubmitTransport(msg)

TransportNext == SubmitTransportStep \/ HandleStep

SpecTransport == MailboxInit /\ [][TransportNext]_vars

(***************************************************************************)
(* The writes of create to the persisted configuration, statement by       *)
(* statement (lines 159-190).  config.mem is the in-memory form behind the *)
(* RwLock, config.writelock tells whether a write guard is alive, disk is  *)
(* the file.  A write guard made by writelock_inner() in an assignment is  *)
(* a temporary: it is dropped at the end of that statement.  pc is the     *)
(* line create is at.                                                      *)
(***************************************************************************)
ConfigFaults == {"none", "persist_storage_path", "fs_copy", "persist_override"}

ConfigInit ==
    /\ pc = "line159"
    /\ disk \in ConfigFiles
    /\ \E io \in IdentityOverrides, fault \in ConfigFaults :
          config = [loaded |-> TRUE, mem |-> disk, writelock |-> FALSE,
                    identity_override |-> io, fault |-> fault, before |-> disk]
    /\ nm = NoNM
    /\ cr = NoCall
    /\ services = <<>>
    /\ mailbox = <<>>
    /\ sent = <<>>
    /\ last = NoMessage
    /\ delivered = 0
    /\ creates = 0
    /\ handling = Idle
    /\ log = <<>>
    /\ cmd = NoCommand

\* create returns an error: the handle is dropped; what create was called
\* with and on is kept
Dropped(c) ==
    [loaded |-> FALSE, identity_override |-> c.identity_override, fault |-> c.fault,
     before |-> c.before]

ConfigUnchanged ==
    UNCHANGED <<nm, cr, services, mailbox, sent, last, delivered, creates, handling, log, cmd>>

\* lines 159-163: config.readlock_inner().authenticated_storage_path.clone()
ReadStoragePath ==
    /\ pc = "line159"
    /\ pc' = IF config.mem.authenticated_storage_path # None THEN "line177" ELSE "line166"
    /\ UNCHANGED <<disk, config>>
    /\ ConfigUnchanged

\* an assignment through config.writelock_inner(): the guard is taken and the
\* field is written; the statement is not over yet
WriteField(at, mem, end) ==
    /\ pc = at
    /\ ~config.writelock
    /\ config' = [config EXCEPT !.writelock = TRUE, !.mem = mem]
    /\ pc' = end
    /\ UNCHANGED disk
    /\ ConfigUnchanged

\* lines 166-167
WriteStoragePath ==
    WriteField("line166",
               [config.mem EXCEPT !.authenticated_storage_path = DefaultLocation],
               "line167.end")

\* line 184
WriteVaultPath ==
    WriteField("line184", [config.mem EXCEPT !.vault_path = DefaultVaultPath], "line184.end")

\* line 185
WriteIdentity ==
    WriteField("line185",
               [config.mem EXCEPT !.identity = config.identity_override.v.identity],
               "line185.end")

\* line 186
WriteOverridden ==
    WriteField("line186", [config.mem EXCEPT !.identity_was_overridden = TRUE], "line186.end")

\* the line after the end of an assignment statement
AfterStatement(at) ==
    CASE at = "line167.end" -> "line168"
      [] at = "line184.end" -> "line185"
      [] at = "line185.end" -> "line186"
      [] at = "line186.end" -> "line188"

\* the end of the assignment statement: its temporary write guard is dropped
DropWriteGuard ==
    /\ pc \in {"line167.end", "line184.end", "line185.end", "line186.end"}
    /\ config.writelock
    /\ config' = [config EXCEPT !.writelock = FALSE]
    /\ pc' = AfterStatement(pc)
    /\ UNCHANGED disk
    /\ ConfigUnchanged

\* config.persist_config_updates().map_err(map_anyhow_err)? at `at`: the
\* in-memory form is written to the file, or create returns the error and
\* drops the handle
Persist(at, next, fault) ==
    /\ pc = at
    /\ IF config.fault = fault
       THEN /\ pc' = "returned_err"
            /\ config' = Dropped(config)
            /\ UNCHANGED disk
       ELSE /\ pc' = next
            /\ disk' = config.mem
            /\ UNCHANGED config
    /\ ConfigUnchanged

\* line 168
PersistStoragePath == Persist("line168", "line177", "persist_storage_path")

\* line 188
PersistOverride == Persist("line188", "line192", "persist_override")

\* the override let through whether or not the config has a vault path
CheckVaultPath_IgnoresVaultPath ==
    /\ pc = "line177"
    /\ pc' = IF config.identity_override.some THEN "line181" ELSE "line192"
    /\ UNCHANGED <<disk, config>>
    /\ ConfigUnchanged

\* lines 177-178: "Skip override if we already had vault"
CheckVaultPath ==
    /\ pc = "line177"
    /\ pc' = IF config.mem.vault_path = None /\ config.identity_override.some
             THEN "line181" ELSE "line192"
    /\ UNCHANGED <<disk, config>>
    /\ ConfigUnchanged

\* lines 181-182: std::fs::copy(..).map_err(..)?
CopyVault ==
    /\ pc = "line181"
    /\ IF config.fault = "fs_copy"
       THEN pc' = "returned_err" /\ config' = Dropped(config)
       ELSE pc' = "line184" /\ UNCHANGED config
    /\ UNCHANGED disk
    /\ ConfigUnchanged

ConfigNext ==
    \/ ReadStoragePath
    \/ WriteStoragePath
    \/ PersistStoragePath
    \/ CheckVaultPath
    \/ CopyVault
    \/ WriteVaultPath
    \/ WriteIdentity
    \/ WriteOverridden
    \/ PersistOverride
    \/ DropWriteGuard

SpecConfig == ConfigInit /\ [][ConfigNext]_vars

(***************************************************************************)
(* The routing table of the specification (section 6): the (method, path)  *)
(* pairs it lists, each with the handler it designates.                    *)
(***************************************************************************)
Route(m, p, h) == [m |-> m, p |-> p, h |-> h]

RoutingTable ==
    {Route("Get", <<"node">>, "node_status"),
     Route("Get", <<"node", "tcp", "connection">>, "get_tcp_con_or_list.Connect"),
     Route("Post", <<"node", "tcp", "connection">>, "add_transport"),
     Route("Delete", <<"node", "tcp", "connection">>, "delete_transport"),
     Route("Get", <<"node", "tcp", "listener">>, "get_tcp_con_or_list.Listen"),
     Route("Post", <<"node", "tcp", "listener">>, "add_transport"),
     Route("Delete", <<"node", "tcp", "listener">>, "delete_transport"),
     Route("Post", <<"node", "vault">>, "create_vault"),
     Route("Post", <<"node", "identity">>, "create_identity"),
     Route("Post", <<"node", "identity", "actions", "show", "short">>, "short_identity"),
     Route("Post", <<"node", "identity", "actions", "show", "long">>, "long_identity"),
     Route("Post", <<"node", "credentials", "actions", "get">>, "get_credential"),
     Route("Post", <<"node", "credentials", "actions", "present">>, "present_credential"),
     Route("Get", <<"node", "secure_channel">>, "list_secure_channels"),
     Route("Post", <<"node", "secure_channel">>, "create_secure_channel"),
     Route("Delete", <<"node", "secure_channel">>, "delete_secure_channel"),
     Route("Get", <<"node", "secure_channel_listener">>, "list_secure_channel_listener"),
     Route("Post", <<"node", "secure_channel_listener">>, "create_secure_channel_listener"),
     Route("Post", <<"node", "services", "vault">>, "start_vault_service"),
     Route("Post", <<"node", "services", "identity">>, "start_identity_service"),
     Route("Post", <<"node", "services", "authenticated">>, "start_authenticated_service"),
     Route("Post", <<"node", "services", "uppercase">>, "start_uppercase_service"),
     Route("Post", <<"node", "services", "echo">>, "start_echoer_service"),
     Route("Post", <<"node", "services", "authenticator">>, "start_authenticator_service"),
     Route("Post", <<"node", "services", "verifier">>, "start_verifier_service"),
     Route("Post", <<"node", "services", "credentials">>, "start_credentials_service"),
     Route("Post", <<"node", "forwarder">>, "create_forwarder"),
     Route("Get", <<"node", "inlet">>, "get_inlets"),
     Route("Post", <<"node", "inlet">>, "create_inlet"),
     Route("Get", <<"node", "outlet">>, "get_outlets"),
     Route("Post", <<"node", "outlet">>, "create_outlet")}

\* the table's last row: paths handed to the orchestrator-facing logic, listed
\* without methods
OrchestratorPath(path) ==
    /\ Len(path) >= 1
    /\ \/ path[1] = "subscription"
       \/ /\ Len(path) >= 2
          /\ path[1] = "v0"
          /\ path[2] \in {"spaces", "projects", "project-enrollers", "enroll", "message"}

InTable(msg) == \E r \in RoutingTable : r.m = msg.method /\ r.p = msg.path

\* handle_message has taken a message that decoded as a request
TookRequest == last.outcome # "none" /\ last.msg.kind = "request"

LastSent == sent[Len(sent)]

(***************************************************************************)
(* ockam_command, enroll: Auth0Service::poll_token, statement by           *)
(* statement.  cmd holds the device code, the spinner, the number of token *)
(* requests sent, the seconds slept, the last answer, the terminal's lines *)
(* and what poll_token returned.                                           *)
(***************************************************************************)
\* anyhow!(msg).into()
anyhow(msg) == [kind |-> "anyhow", msg |-> msg]

NoReturn == [returned |-> FALSE]

\* what everything but pc and cmd is while the command runs
CommandUnchanged ==
    UNCHANGED <<disk, nm, cr, services, mailbox, sent, last, delivered, creates, handling,
                log, config>>

\* "authorization_pending" | "invalid_request" | "slow_down"
RetryableErrors == {"authorization_pending", "invalid_request", "slow_down"}

\* the `error` of a TokensError
TokensErrors == RetryableErrors \cup {"access_denied", "expired_token"}

\* slow_down taken for a final error
ShouldRetry_NotOnSlowDown(error) == error \in {"authorization_pending", "invalid_request"}

\* the inner match of poll_token: poll again on these errors
ShouldRetry(error) == error \in RetryableErrors

\* the outcome of a token request: the send fails, or the provider answers
\* with a status and a body, which decodes or does not
SendFailed == [kind |-> "send_failed"]
NoAnswer == [kind |-> "none"]
Answer(status, body) == [kind |-> "answer", status |-> status, body |-> body]
Undecodable == "undecodable"
TokenRequestOutcomes ==
    {SendFailed}
    \cup {Answer("OK", b) : b \in {"token.1", Undecodable}}
    \cup {Answer(st, b) : st \in {"BAD_REQUEST", "FORBIDDEN"},
                          b \in TokensErrors \cup {Undecodable}}

\* DeviceCode: the code and the polling interval in seconds
DeviceCodes == {[device_code |-> "device.1", interval |-> i] : i \in {1, 5}}

\* opts.terminal.progress_spinner(): an Option
Spinners == {"none", "idle"}

PollInit ==
    /\ pc = "line347"
    /\ \E dc \in DeviceCodes, sp \in Spinners :
          cmd = [fn |-> "poll_token", dc |-> dc, spinner |-> sp, polls |-> 0, waited |-> 0,
                 answer |-> NoAnswer, terminal |-> <<>>, ret |-> NoReturn]
    /\ disk = FreshConfig
    /\ nm = NoNM
    /\ cr = NoCall
    /\ services = <<>>
    /\ mailbox = <<>>
    /\ sent = <<>>
    /\ last = NoMessage
    /\ delivered = 0
    /\ creates = 0
    /\ handling = Idle
    /\ log = <<>>
    /\ config = NoConfig

\* `return r` and `?` on an Err
Return(r) == [cmd EXCEPT !.ret = r]

\* lines 347-352: build_http_client()?, then the spinner's message
BuildHttpClient(fails) ==
    /\ pc = "line347"
    /\ IF fails
       THEN /\ pc' = "returned"
            /\ cmd' = Return(Err(anyhow("Error building http client")))
       ELSE /\ pc' = "line353"
            /\ cmd' = [cmd EXCEPT !.spinner = IF @ = "idle" THEN "Waiting for token..." ELSE @]
    /\ CommandUnchanged

\* lines 354-364: client.post(..).send().await.map_err(..)?
SendTokenRequest(outcome) ==
    /\ pc = "line353"
    /\ cmd.polls < MaxPolls
    /\ IF outcome = SendFailed
       THEN /\ pc' = "returned"
            /\ cmd' = [cmd EXCEPT !.polls = @ + 1, !.answer = outcome,
                                  !.ret = Err(anyhow("error sending request"))]
       ELSE /\ pc' = "line365"
            /\ cmd' = [cmd EXCEPT !.polls = @ + 1, !.answer = outcome]
    /\ CommandUnchanged

\* lines 365-394: match res.status(), up to the return or the sleep
MatchStatus(write_fails) ==
    /\ pc = "line365"
    /\ LET res == cmd.answer
       IN  IF res.status = "OK"
           THEN /\ pc' = "returned"
                /\ IF res.body = Undecodable
                   THEN cmd' = Return(Err(anyhow("error decoding response body")))
                   ELSE LET cleared == [cmd EXCEPT !.spinner = IF @ = "none" THEN @
                                                               ELSE "cleared"]
                        IN  IF write_fails
                            THEN cmd' = [cleared EXCEPT !.ret = Err(anyhow("terminal write"))]
                            ELSE cmd' = [cleared EXCEPT
                                            !.terminal = Append(@, "Token received!"),
                                            !.ret = Ok(res.body)]
           ELSE IF res.body = Undecodable
                THEN /\ pc' = "returned"
                     /\ cmd' = Return(Err(anyhow("error decoding response body")))
                ELSE IF ShouldRetry(res.body)
                     THEN /\ pc' = "line386"
                          /\ UNCHANGED cmd
                     ELSE /\ pc' = "returned"
                          /\ cmd' = Return(Err(anyhow("failed to receive tokens")))
    /\ CommandUnchanged

\* lines 386-387: sleep(Duration::from_secs(dc.interval as u64)).await; continue
Sleep ==
    /\ pc = "line386"
    /\ pc' = "line353"
    /\ cmd' = [cmd EXCEPT !.waited = @ + cmd.dc.interval]
    /\ CommandUnchanged

PollNext ==
    \/ \E fails \in BOOLEAN : BuildHttpClient(fails)
    \/ \E outcome \in TokenRequestOutcomes : SendTokenRequest(outcome)
    \/ \E write_fails \in BOOLEAN : MatchStatus(write_fails)
    \/ Sleep

SpecPoll == PollInit /\ [][PollNext]_vars

(***************************************************************************)
(* ockam_command, enroll: run_impl, statement by statement.  cmd holds the *)
(* terminal's lines, the embedded node, the steps begun in their order,    *)
(* the values the steps gave and what run_impl returned.                   *)
(***************************************************************************)
\* the names start_embedded_node may give the node
NodeNames == {"node.1", "node.2"}

\* what the node answers to the enroll request, or what fails before
EnrollOutcomes == {"token_failed", "request_failed", "Ok", "BadRequest", "Unauthorized"}

Spaces == {"space.first", "space.created"}
Projects == {"project.default", "project.first", "project.created"}

\* the error a failing step of run_impl gives
StepError(step) == anyhow(step \o " failed")

\* enroll(ctx, opts, cmd, node_name): Ok on Status::Ok and on Status::BadRequest
\* ("Already enrolled")
enroll(outcome) ==
    CASE outcome = "token_failed" -> Err(StepError("enroll"))
      [] outcome = "request_failed" -> Err(StepError("enroll"))
      [] outcome \in {"Ok", "BadRequest"} -> Ok(outcome)
      [] OTHER -> Err(anyhow("Failed to enroll"))

EnrollInit ==
    /\ pc = "line62"
    /\ cmd = [fn |-> "run_impl", terminal |-> <<>>, node_name |-> None, node |-> "none",
              steps |-> <<>>, enrolled |-> None, space |-> None, project |-> None,
              identity_updated |-> FALSE, ret |-> NoReturn]
    /\ disk = FreshConfig
    /\ nm = NoNM
    /\ cr = NoCall
    /\ services = <<>>
    /\ mailbox = <<>>
    /\ sent = <<>>
    /\ last = NoMessage
    /\ delivered = 0
    /\ creates = 0
    /\ handling = Idle
    /\ log = <<>>
    /\ config = NoConfig

\* a step of run_impl begins: its name is added to the steps begun
Begin(step) == [cmd EXCEPT !.steps = Append(@, step)]

\* lines 62-63: opts.terminal.write_line(header)?
WriteHeader(fails) ==
    /\ pc = "line62"
    /\ IF fails
       THEN pc' = "returned" /\ cmd' = Return(Err(StepError("header")))
       ELSE pc' = "line65" /\ cmd' = [cmd EXCEPT !.terminal = Append(@, "header")]
    /\ CommandUnchanged

\* line 65: let node_name = start_embedded_node(ctx, &opts, None).await?
StartEmbeddedNode(r) ==
    /\ pc = "line65"
    /\ IF r.ok
       THEN /\ pc' = "line67"
            /\ cmd' = [Begin("start_embedded_node") EXCEPT !.node_name = r.value,
                                                           !.node = "running"]
       ELSE /\ pc' = "returned"
            /\ cmd' = [Begin("start_embedded_node") EXCEPT !.ret = r]
    /\ CommandUnchanged

\* line 67: enroll(ctx, &opts, &cmd, &node_name).await?
Enroll(outcome) ==
    /\ pc = "line67"
    /\ LET r == enroll(outcome)
       IN  IF r.ok
           THEN pc' = "line70" /\ cmd' = [Begin("enroll") EXCEPT !.enrolled = r.value]
           ELSE pc' = "returned" /\ cmd' = [Begin("enroll") EXCEPT !.ret = r]
    /\ CommandUnchanged

\* line 70: let space = default_space(..).await?
DefaultSpace(r) ==
    /\ pc = "line70"
    /\ IF r.ok
       THEN pc' = "line71" /\ cmd' = [Begin("default_space") EXCEPT !.space = r.value]
       ELSE pc' = "returned" /\ cmd' = [Begin("default_space") EXCEPT !.ret = r]
    /\ CommandUnchanged

\* line 71: default_project(.., &space).await?
DefaultProject(r) ==
    /\ pc = "line71"
    /\ IF r.ok
       THEN pc' = "line72" /\ cmd' = [Begin("default_project") EXCEPT !.project = r.value]
       ELSE pc' = "returned" /\ cmd' = [Begin("default_project") EXCEPT !.ret = r]
    /\ CommandUnchanged

\* the error of update_enrolled_identity ignored
UpdateEnrolledIdentity_ErrorIgnored(fails) ==
    /\ pc = "line72"
    /\ pc' = "line73"
    /\ cmd' = [Begin("update_enrolled_identity") EXCEPT !.identity_updated = ~fails]
    /\ CommandUnchanged

\* line 72: update_enrolled_identity(&opts, &node_name).await?
UpdateEnrolledIdentity(fails) ==
    /\ pc = "line72"
    /\ IF fails
       THEN /\ pc' = "returned"
            /\ cmd' = [Begin("update_enrolled_identity") EXCEPT
                          !.ret = Err(StepError("update_enrolled_identity"))]
       ELSE /\ pc' = "line73"
            /\ cmd' = [Begin("update_enrolled_identity") EXCEPT !.identity_updated = TRUE]
    /\ CommandUnchanged

\* line 73: delete_embedded_node(&opts, &node_name).await; no result is looked at
DeleteEmbeddedNode ==
    /\ pc = "line73"
    /\ pc' = "line75"
    /\ cmd' = [Begin("delete_embedded_node") EXCEPT !.node = "deleted"]
    /\ CommandUnchanged

\* lines 75-77: opts.terminal.write_line("Enrolled successfully!")?; Ok(())
ReportSuccess(fails) ==
    /\ pc = "line75"
    /\ pc' = "returned"
    /\ IF fails
       THEN cmd' = [Begin("report") EXCEPT !.ret = Err(StepError("report"))]
       ELSE cmd' = [Begin("report") EXCEPT !.terminal = Append(@, "Enrolled successfully!"),
                                          !.ret = Ok("()")]
    /\ CommandUnchanged

\* what a step of run_impl that gives a value returns
Results(step, values) == {Err(StepError(step))} \cup {Ok(v) : v \in values}

EnrollNext ==
    \/ \E fails \in BOOLEAN : WriteHeader(fails)
    \/ \E r \in Results("start_embedded_node", NodeNames) : StartEmbeddedNode(r)
    \/ \E outcome \in EnrollOutcomes : Enroll(outcome)
    \/ \E r \in Results("default_space", Spaces) : DefaultSpace(r)
    \/ \E r \in Results("default_project", Projects) : DefaultProject(r)
    \/ \E fails \in BOOLEAN : UpdateEnrolledIdentity(fails)
    \/ DeleteEmbeddedNode
    \/ \E fails \in BOOLEAN : ReportSuccess(fails)

SpecEnroll == EnrollInit /\ [][EnrollNext]_vars

(***************************************************************************)
(* The claims.                                                             *)
(***************************************************************************)

\* C1 (as stated): a decodable request whose (method, path) is not in the
\* routing table is answered with status 400 and the body
\* "Invalid endpoint: <path>", and the NodeManager is left as it was.
C1_UnroutedRequestIs400 ==
    (TookRequest /\ ~InTable(last.msg) /\ ~OrchestratorPath(last.msg.path))
        => /\ last.outcome = "handled"
           /\ sent = Send(last.msg.rr,
                          Response(last.msg.id, StatusBadRequest,
                                   [text |-> "Invalid endpoint: " \o PathString(last.msg.path)]))
           /\ nm = test_create.s
           /\ disk = test_create.disk

\* C2: a request whose (method, path) the routing table lists is dispatched
\* to the handler the table designates, and never to the catch-all arm.
C2_TableRoutesReachTheirHandler ==
    \A r \in RoutingTable :
        (TookRequest /\ last.msg.method = r.m /\ last.msg.path = r.p)
            => (last.arm # 0 /\ Arms[last.arm].h = r.h)

C2_Witness ==
    /\ TookRequest
    /\ last.msg.method = "Post"
    /\ last.msg.path = <<"node", "services", "echo">>
    /\ last.outcome = "handled"
    /\ HandlerOf(last.arm) = "start_echoer_service"

\* C3 (as stated): for every decodable request handle_message returns
\* normally and a response has been sent; the worker goes on serving.
C3_NoFailureEscapes ==
    TookRequest
        => /\ last.ret = "Ok"
           /\ last.outcome \in {"handled", "failed"}
           /\ Len(sent) >= 1
           /\ pc = "serving"

C5_UndecodableIsDropped ==
    [][(pc = "serving" /\ mailbox # <<>> /\ Head(mailbox).kind = "garbage"
            /\ mailbox' = Tail(mailbox))
        => (sent' = sent /\ nm' = nm /\ disk' = disk /\ pc' = "serving"
            /\ last'.outcome = "undecodable" /\ last'.ret = "Ok")]_vars

\* an undecodable message was dropped and the request after it was answered
C5_Witness ==
    /\ delivered >= 2
    /\ mailbox = <<>>
    /\ Len(sent) = delivered - 1
    /\ last.outcome = "handled"
    /\ last.msg.id = 2

\* C6: a response sent for a request carries that request's id.
C6_ResponsesEchoRequestId ==
    (TookRequest /\ last.outcome \in {"handled", "failed"})
        => (Len(sent) >= 1 /\ LastSent.resp.id = last.msg.id)

C6_Witness ==
    /\ TookRequest
    /\ last.msg.id = 2
    /\ last.msg.path = <<"nowhere">>
    /\ Len(sent) = 1
    /\ sent[1].resp.status = StatusBadRequest
    /\ sent[1].resp.id = 2

\* the collaborators create calls before it validates its options
FaultsBeforeValidation ==
    {"persist_storage_path", "lmdb_new", "fs_copy", "persist_override",
     "file_storage_create", "identity_import"}

\* create was called with enable_credential_checks and without the
\* authorities config or without the project id
CalledWithInvalidOptions ==
    /\ cr.called
    /\ cr.enable_credential_checks
    /\ (~cr.ac.some \/ cr.project_id = None)

\* C7 (as stated): such a call fails with an Invalid-kind error and returns no
\* NodeManager.
C7_InvalidOptionsAlwaysInvalidKind ==
    CalledWithInvalidOptions => (cr.err.kind = "Invalid" /\ ~nm.present)

\* C7 (amended): such a call fails and returns no NodeManager; its error is of
\* kind Invalid unless one of the steps before the validation has failed, and
\* then it is that step's error.
C7_InvalidOptionsRejected ==
    CalledWithInvalidOptions
        => /\ cr.err # NoError
           /\ ~nm.present
           /\ pc = "create_failed"
           /\ cr.fault \notin FaultsBeforeValidation => cr.err.kind = "Invalid"
           /\ cr.err.kind # "Invalid" => cr.fault \in FaultsBeforeValidation

C7_Witness ==
    /\ cr.called
    /\ cr.enable_credential_checks
    /\ cr.ac.some
    /\ cr.project_id = None
    /\ cr.err = Error("Invalid", "Invalid NodeManager options")
    /\ ~nm.present

\* C8 (as stated): a NodeManager with enable_credential_checks has its
\* authorities and its project id set, in every state.
C8_ChecksImplyAuthoritiesAndProject ==
    (nm.present /\ nm.enable_credential_checks)
        => (authorities(nm).ok /\ project_id(nm).ok)

\* C8 (amended): a NodeManager with enable_credential_checks has its project
\* id set, and its authorities too unless skip_defaults is set, in every state.
C8_ChecksImplyProjectAndAuthoritiesUnlessSkipped ==
    (nm.present /\ nm.enable_credential_checks)
        => /\ project_id(nm).ok
           /\ ~nm.skip_defaults => authorities(nm).ok

\* such a NodeManager after it has answered a request
C8_Witness ==
    /\ nm.present
    /\ nm.enable_credential_checks
    /\ ~nm.skip_defaults
    /\ authorities(nm).ok
    /\ project_id(nm).ok
    /\ last.outcome = "handled"

\* create succeeded on a fresh node directory, without identity override and
\* with skip_defaults = false
FreshDefaultCreate ==
    /\ cr.called
    /\ cr.before = FreshConfig
    /\ ~cr.identity_override.some
    /\ ~cr.skip_defaults
    /\ cr.err = NoError

\* C9: the NodeManager such a create returns has its vault and its identity.
C9_FreshCreateHasVaultAndIdentity ==
    FreshDefaultCreate => (nm.present /\ vault(nm).ok /\ identity(nm).ok)

C9_Witness ==
    /\ FreshDefaultCreate
    /\ nm.vault = DefaultVaultPath
    /\ nm.identity = "identity.created"

\* C10: a NodeManager has an identity only if it has a vault, in every state;
\* and an identity persisted without a vault path is not the identity of the
\* NodeManager that create returns.
C10_IdentityOnlyWithVault ==
    /\ nm.present => (nm.identity # None => nm.vault # None)
    /\ (cr.called /\ cr.err = NoError /\ cr.before.identity # None
            /\ cr.before.vault_path = None)
        => nm.identity # cr.before.identity

\* the persisted identity without vault path was found and left alone
C10_Witness ==
    /\ cr.called
    /\ cr.err = NoError
    /\ cr.before.identity # None
    /\ cr.before.vault_path = None
    /\ nm.present
    /\ nm.identity = None
    /\ nm.vault = None

\* C11: when create has returned a NodeManager, its transport map has exactly
\* one entry: the generated alias, which is the NodeManager's
\* api_transport_id, mapped to the API transport that create was given.
C11_ApiTransportAloneInMap ==
    (cr.called /\ cr.err = NoError)
        => /\ nm.present
           /\ nm.api_transport_id = cr.alias
           /\ DOMAIN nm.transports = {cr.alias}
           /\ nm.transports[cr.alias] = ApiTransport

\* create has succeeded with defaults and authorities, and the map is as said
C11_Witness ==
    /\ cr.called
    /\ cr.err = NoError
    /\ ~cr.skip_defaults
    /\ cr.ac.some
    /\ pc = "created"
    /\ Cardinality(DOMAIN nm.transports) = 1
    /\ nm.transports[nm.api_transport_id] = ApiTransport

\* the import of some entry of the authorities config fails
ImportFails(entries) ==
    \E i \in DOMAIN entries : ~PublicIdentityImport(entries[i].identity).ok

\* C12: create was called with an authorities config and skip_defaults = false.
\* If the import of one of the entries fails, create fails, returns no
\* NodeManager, and the authorities of the aggregate it drops are absent (never
\* the list of the entries imported so far); if create succeeds, the
\* authorities hold one AuthorityInfo per entry of the config, in its order.
C12_AuthoritiesAllOrNothing ==
    (cr.called /\ cr.ac.some /\ ~cr.skip_defaults)
        => /\ ImportFails(cr.ac.v)
                => /\ cr.err # NoError
                   /\ ~nm.present
                   /\ pc = "create_failed"
                   /\ cr.local.present => cr.local.authorities = Absent
           /\ cr.err = NoError
                => /\ nm.authorities.some
                   /\ Len(nm.authorities.v) = Len(cr.ac.v)
                   /\ \A i \in DOMAIN cr.ac.v :
                         /\ nm.authorities.v[i].identity = cr.ac.v[i].identity
                         /\ nm.authorities.v[i].addr = cr.ac.v[i].addr

\* the second entry's import failed after the first one's had succeeded
C12_Witness ==
    /\ cr.called
    /\ ~cr.skip_defaults
    /\ cr.ac = Some(<<GoodAuthority, BadAuthority>>)
    /\ cr.err = CollaboratorError("PublicIdentity::import")
    /\ cr.local.present
    /\ cr.local.vault # None
    /\ cr.local.authorities = Absent
    /\ ~nm.present

\* C13: the authorities of a NodeManager are those it had when create
\* returned it: no step of initialize or of handle_message assigns them,
\* changes them or makes them absent, and the NodeManager stays.
C13_AuthoritiesNeverChange ==
    [][nm.present => (nm'.present /\ nm'.authorities = nm.authorities)]_vars

\* a NodeManager with its authorities that was started and has answered two
\* requests, one of them with an error
C13_Witness ==
    /\ nm.present
    /\ nm.authorities.some
    /\ Len(nm.authorities.v) = 1
    /\ services # <<>>
    /\ Len(sent) = 2
    /\ \E i \in 1..2 : sent[i].resp.status = InternalServerError

\* the messages of a sequence that decode as requests
Requests(seq) == SelectSeq(seq, LAMBDA m : m.kind = "request")

\* the submitted messages whose handle_message has returned or panicked
Completed ==
    SubSeq(log, 1, Len(log) - Len(mailbox) - (IF handling.kind = "idle" THEN 0 ELSE 1))

\* the i-th response sent answers the request r
Answers(i, r) == sent[i].to = r.rr /\ sent[i].resp.id = r.id

\* C14: messages are taken in the order of their submission, and the
\* responses sent are, in that order, the responses to the requests taken
\* before; while a message is being handled, the response to every request
\* submitted before it has already been sent, however long its handler waited.
C14_ResponsesInSubmissionOrder ==
    /\ mailbox = SubSeq(log, Len(log) - Len(mailbox) + 1, Len(log))
    /\ handling.kind # "idle" => handling = log[Len(Completed) + 1]
    /\ Len(sent) <= Len(Requests(Completed))
    /\ \A i \in 1..Len(sent) : Answers(i, Requests(Completed)[i])
    /\ handling.kind # "idle" => Len(sent) = Len(Requests(Completed))

\* request B of client.b is being handled; request A of client.a, submitted
\* before it, has been answered
C14_Witness ==
    /\ Len(log) = 2
    /\ log[1].kind = "request" /\ log[1].rr = "client.a"
    /\ handling.kind = "request"
    /\ handling = log[2]
    /\ handling.rr = "client.b"
    /\ Len(sent) = 1
    /\ Answers(1, log[1])

\* C15 (as stated): no request is dropped or answered twice: once the mailbox
\* is empty and no handler is running, every request submitted has exactly one
\* response, sent to its return route, the responses being in the order of
\* the requests.
C15_EveryRequestAnsweredOnce ==
    (mailbox = <<>> /\ handling.kind = "idle")
        => /\ Len(sent) = Len(Requests(log))
           /\ \A i \in 1..Len(sent) : Answers(i, Requests(log)[i])

\* create is called on the node directory that the last run's create, a
\* successful one, has left
SecondCreate ==
    /\ pc = "start"
    /\ cr = Ended(TRUE)
    /\ creates' = creates + 1

\* C16 (as stated): the second create leaves vault_path, identity and
\* authenticated_storage_path in the persisted config as the first one
\* persisted them, and the NodeManager it returns holds these same values.
C16_SecondCreateKeepsConfig ==
    [][SecondCreate
        => /\ disk'.vault_path = disk.vault_path
           /\ disk'.identity = disk.identity
           /\ disk'.authenticated_storage_path = disk.authenticated_storage_path
           /\ nm'.present
                => /\ nm'.config.vault_path = disk.vault_path
                   /\ nm'.config.identity = disk.identity
                   /\ nm'.config.authenticated_storage_path
                         = disk.authenticated_storage_path]_vars

\* C16 (amended): the second create finds the authenticated_storage_path
\* persisted and keeps it; if the first one persisted a vault_path, the second
\* keeps it, ignores an identity override, and keeps the identity bytes if
\* they were persisted too; the NodeManager it returns holds the kept values.
C16_SecondCreateKeepsWhatWasPersisted ==
    [][SecondCreate
        => /\ disk.authenticated_storage_path # None
           /\ disk'.authenticated_storage_path = disk.authenticated_storage_path
           /\ nm'.present => nm'.authenticated_storage = disk.authenticated_storage_path
           /\ disk.vault_path # None
                => /\ disk'.vault_path = disk.vault_path
                   /\ disk'.identity_was_overridden = disk.identity_was_overridden
                   /\ nm'.present => nm'.vault = disk.vault_path
                   /\ disk.identity # None
                        => /\ disk'.identity = disk.identity
                           /\ nm'.present => nm'.identity = disk.identity]_vars

\* a second create with an identity override has succeeded on a directory in
\* which an earlier create had made the default vault and identity, and has
\* left the persisted config as it was
C16_Witness ==
    /\ creates = 2
    /\ cr.called
    /\ cr.err = NoError
    /\ cr.identity_override.some
    /\ cr.before.vault_path = DefaultVaultPath
    /\ cr.before.identity = "identity.created"
    /\ disk = cr.before
    /\ nm.present
    /\ nm.identity = "identity.created"

\* the fields of an identity-override update
OverrideFields == {"vault_path", "identity", "identity_was_overridden"}

\* the in-memory form holds some of the fields of an identity-override update
\* and not the others
PartialOverride ==
    LET written == {f \in OverrideFields : config.mem[f] # disk[f]}
    IN  written # {} /\ written # OverrideFields

\* C17 (as stated): whenever no write guard is held, so that a reader can
\* take the read lock, the in-memory form of the configuration is what has
\* been flushed to the file, and it does not hold a part of an
\* identity-override update.
C17_WritesFlushedBeforeRelease ==
    (config.loaded /\ ~config.writelock)
        => (config.mem = disk /\ ~PartialOverride)

\* Worker::initialize has run initialize_defaults on the NodeManager
InitializeDefaultsRan ==
    /\ pc \in {"serving", "initialize_failed", "panicked"}
    /\ ~nm.skip_defaults

Started(name) == \E i \in DOMAIN services : services[i] = name

\* C18 (as stated): initialize_defaults has started the credential service if
\* and only if the NodeManager has authorities.
C18_CredentialServiceIffAuthorities ==
    InitializeDefaultsRan => (Started(CredentialService) <=> authorities(nm).ok)

\* C18 (amended): initialize_defaults starts the credential service only if
\* the NodeManager has authorities, and when it returns Ok it has started it
\* if the NodeManager has authorities, whatever enable_credential_checks is;
\* when it fails, the services started are those before the one that failed.
C18_CredentialServiceIffAuthoritiesWhenOk ==
    InitializeDefaultsRan
        => /\ Started(CredentialService) => authorities(nm).ok
           /\ pc # "initialize_failed"
                => /\ Started(CredentialService) <=> authorities(nm).ok
                   /\ SubSeq(services, 1, Len(DefaultServices)) = DefaultServices
           /\ pc = "initialize_failed"
                => /\ ~Started(CredentialService)
                   /\ Len(services) <= Len(DefaultServices)
                   /\ services = SubSeq(DefaultServices, 1, Len(services))

\* a NodeManager without credential checks and with authorities has started
\* the credential service, after the seven default services
C18_Witness ==
    /\ pc = "serving"
    /\ nm.present
    /\ ~nm.enable_credential_checks
    /\ authorities(nm).ok
    /\ Len(services) = Len(DefaultServices) + 1
    /\ services[Len(services)] = CredentialService

\* the NodeManager and the persisted config as create_defaults takes them
Aggregate == [err |-> NoError, s |-> nm, disk |-> disk]

\* handle_message takes a POST request for `path`
TakesPost(path) ==
    /\ pc = "serving"
    /\ mailbox # <<>>
    /\ Head(mailbox).kind = "request"
    /\ Head(mailbox).method = "Post"
    /\ Head(mailbox).path = path
    /\ mailbox' = Tail(mailbox)

\* the implicit mode: a create that has run create_defaults was not rejected
\* for a vault or an identity that existed, has kept the vault and the
\* identity it found, and running create_defaults again on what it returned
\* changes nothing, whichever collaborator would fail
ImplicitMode ==
    (cr.called /\ cr.local.present /\ ~cr.skip_defaults)
        => /\ cr.err.msg \notin {"Vault already exists", "Identity already exists"}
           /\ cr.before.vault_path # None
                => /\ cr.local.vault = cr.before.vault_path
                   /\ cr.before.identity # None => cr.local.identity = cr.before.identity
           /\ cr.err = NoError
                => \A f \in CreateFaults : create_defaults(Aggregate, f) = Aggregate

\* the explicit mode for the resource `field`, requested with POST `path`: it
\* is rejected and changes nothing if the resource exists; if it is absent
\* (and `needs` present) the resource is created and persisted, unless the
\* collaborator fails
ExplicitMode(path, field, needs, what) ==
    TakesPost(path)
        => IF nm[field] # None
           THEN /\ last'.outcome = "failed"
                /\ last'.error = ApiErrorGeneric(what \o " already exists")
                /\ nm' = nm
                /\ disk' = disk
           ELSE needs
                => \/ /\ last'.outcome = "handled"
                      /\ nm'[field] # None
                      /\ disk' = nm'.config
                      /\ sent'[Len(sent')].resp.status = StatusOk
                   \/ /\ last'.outcome = "failed"
                      /\ last'.error.kind = "Collaborator"
                      /\ nm' = nm

Answered(i, method) ==
    /\ i <= Len(sent)
    /\ log[i].method = method
    /\ sent[i].resp.status = StatusOk

\* the alias that the response to the i-th request, a Post or a Delete, names
AliasOf(i) == sent[i].resp.body.text

\* the transport `alias` was added by the i-th request, deleted by the j-th
\* and not added again before the k-th, which lists transports
AddedDeletedListed(i, j, k, alias) ==
    /\ i < j /\ j < k
    /\ Answered(i, "Post") /\ AliasOf(i) = alias
    /\ Answered(j, "Delete") /\ AliasOf(j) = alias
    /\ Answered(k, "Get")
    /\ \A m \in (j + 1)..(k - 1) : ~(Answered(m, "Post") /\ AliasOf(m) = alias)

\* handle_message takes a Delete request of the transports
TakesDelete ==
    /\ pc = "serving"
    /\ mailbox # <<>>
    /\ Head(mailbox).method = "Delete"
    /\ mailbox' = Tail(mailbox)

\* deleting removes the alias and nothing else; deleting an alias that the
\* transport map does not hold is answered NotFound and changes nothing; in
\* both cases the worker goes on serving
DeleteByAlias ==
    TakesDelete
        => LET resp == sent'[Len(sent')].resp
           IN  /\ Len(sent') = Len(sent) + 1
               /\ pc' = "serving"
               /\ resp.status \in {StatusOk, StatusNotFound, InternalServerError}
               /\ resp.status = StatusOk
                    => /\ resp.body.text \in DOMAIN nm.transports
                       /\ DOMAIN nm'.transports = DOMAIN nm.transports \ {resp.body.text}
                       /\ \A a \in DOMAIN nm'.transports : nm'.transports[a] = nm.transports[a]
               /\ resp.status = StatusNotFound
                    => /\ resp.body.text \notin DOMAIN nm.transports
                       /\ nm' = nm
               /\ resp.status = InternalServerError
                    => /\ last'.error.kind = "Collaborator"
                       /\ nm' = nm
               /\ (\A a \in Aliases : a \notin DOMAIN nm.transports)
                    => resp.status = StatusNotFound

\* C20: a listing that follows the deletion of a transport that had been
\* added does not hold its alias (unless a later request added a transport
\* under that alias again); deleting an alias that the transport map does not
\* hold is answered with NotFound, leaves the map as it is, and the worker
\* goes on serving.
C20_DeletedTransportNotListed ==
    /\ [](\A i, j, k \in 1..Len(sent) : \A alias \in Aliases :
             AddedDeletedListed(i, j, k, alias) => alias \notin sent[k].resp.body.list)
    /\ [][DeleteByAlias]_vars

\* alias.2 was added as a connection, deleted, and the listing of the
\* connections that followed is empty
C20_Witness ==
    /\ Len(sent) = 3
    /\ AddedDeletedListed(1, 2, 3, "alias.2")
    /\ log[1].path = <<"node", "tcp", "connection">>
    /\ log[3].path = <<"node", "tcp", "connection">>
    /\ sent[3].resp.body.list = {}
    /\ DOMAIN nm.transports = {"alias.1"}

\* C21: create starts no service; a NodeManager with skip_defaults never has a
\* default service started; the default services are started in one step
\* only, the worker's initialize, which follows create's return and comes
\* before any message is delivered or handled, and what it has started is
\* never started again or changed.
C21_DefaultsInitializedOnceBeforeServing ==
    /\ [](/\ pc \in {"start", "created", "create_failed"} => services = <<>>
          /\ (nm.present /\ nm.skip_defaults) => services = <<>>
          /\ (delivered > 0 \/ sent # <<>> \/ last # NoMessage) => pc \in {"serving", "panicked"})
    /\ [][services' # services
            => /\ pc = "created"
               /\ pc' \in {"serving", "initialize_failed"}
               /\ services = <<>>
               /\ nm.present /\ ~nm.skip_defaults /\ nm' = nm
               /\ delivered = 0 /\ mailbox = <<>> /\ sent = <<>> /\ last = NoMessage]_vars

\* the defaults were started, then two messages were handled, and the services
\* are those that initialize started
C21_Witness ==
    /\ pc = "serving"
    /\ ~nm.skip_defaults
    /\ SubSeq(services, 1, Len(DefaultServices)) = DefaultServices
    /\ delivered = 2
    /\ mailbox = <<>>
    /\ Len(sent) >= 1

\* the services initialize_defaults is to start on this NodeManager, in order
ExpectedServices ==
    DefaultServices \o (IF authorities(nm).ok THEN <<CredentialService>> ELSE <<>>)

\* C22: the services started by initialize_defaults are, in this order, vault,
\* identity, authenticated, uppercase, echo, forwarding, secure-channel
\* listener and, with authorities, credentials: all of them when it returned
\* Ok; when it returned an error, those before the first one whose start
\* failed, the error being that start's.
C22_ServicesStartedInOrderUntilFailure ==
    InitializeDefaultsRan
        => /\ Len(services) <= Len(ExpectedServices)
           /\ services = SubSeq(ExpectedServices, 1, Len(services))
           /\ pc # "initialize_failed"
                => /\ services = ExpectedServices
                   /\ cr.initialize = NoError
           /\ pc = "initialize_failed"
                => /\ Len(services) < Len(ExpectedServices)
                   /\ cr.initialize = CollaboratorError(ExpectedServices[Len(services) + 1])

\* the start of the echo service failed after four services had started
C22_Witness ==
    /\ pc = "initialize_failed"
    /\ services = <<"vault_service", "identity_service", "authenticated", "uppercase">>
    /\ cr.initialize = CollaboratorError("echo")
    /\ authorities(nm).ok

\* the three fields of an identity-override update, as a config holds them
OverridePart(c) == [f \in OverrideFields |-> c[f]]

\* what the override of this call records
OverrideRecorded ==
    [f \in OverrideFields |->
        CASE f = "vault_path" -> DefaultVaultPath
          [] f = "identity" -> config.identity_override.v.identity
          [] OTHER -> TRUE]

\* the config that create loaded has no vault path, and an override was given
OverrideApplies == config.before.vault_path = None /\ config.identity_override.some

\* C23 (as stated): once the statements of lines 159-190 are over, by
\* reaching line 192 or by returning an error, the three fields are persisted
\* as the override gives them if the config loaded had no vault path and an
\* override was supplied, and are as they were loaded otherwise.
C23_OverrideRecordedIffNoVaultPath ==
    pc \in {"line192", "returned_err"}
        => OverridePart(disk) = IF OverrideApplies THEN OverrideRecorded
                                ELSE OverridePart(config.before)

\* C23 (amended): the three fields change in the file only all at once, by
\* the persist of line 188, and only if the config loaded had no vault path
\* and an override was supplied; they are then persisted as the override
\* gives them when line 192 is reached, and are as they were loaded when
\* create has returned the error of the copy or of a persist; otherwise
\* neither the file nor the in-memory form changes in any of them.
C23_OverrideRecordedIffNoVaultPathAndNoFailure ==
    /\ [](/\ pc = "line192"
                => /\ OverridePart(disk) = IF OverrideApplies THEN OverrideRecorded
                                           ELSE OverridePart(config.before)
                   /\ config.mem = disk
          /\ pc = "returned_err"
                => /\ OverridePart(disk) = OverridePart(config.before)
                   /\ config.fault # "none"
          /\ (config.loaded /\ ~OverrideApplies)
                => /\ OverridePart(config.mem) = OverridePart(config.before)
                   /\ OverridePart(disk) = OverridePart(config.before))
    /\ [][OverridePart(disk') # OverridePart(disk)
            => /\ pc = "line188"
               /\ OverrideApplies
               /\ OverridePart(disk) = OverridePart(config.before)
               /\ OverridePart(disk') = OverrideRecorded]_vars

\* an override on a config with a persisted identity and no vault path has
\* been recorded and persisted
C23_Witness ==
    /\ pc = "line192"
    /\ config.before.vault_path = None
    /\ config.before.identity = "identity.persisted"
    /\ config.identity_override.some
    /\ disk.vault_path = DefaultVaultPath
    /\ disk.identity = "identity.override"
    /\ disk.identity_was_overridden

\* the vault path and the identity bytes that a create finds once the override
\* step is over: those of the override if the config it loaded has no vault
\* path and an override was given, those of the config otherwise
ConfiguredVaultPath ==
    IF cr.before.vault_path = None /\ cr.identity_override.some
    THEN DefaultVaultPath ELSE cr.before.vault_path

ConfiguredIdentity ==
    IF cr.before.vault_path = None /\ cr.identity_override.some
    THEN cr.identity_override.v.identity ELSE cr.before.identity

\* C24: create was called with skip_defaults = true.  Whatever its outcome,
\* the vault path and the identity it leaves persisted are those configured or
\* overridden or those loaded (no default is created), and the authorities of
\* its aggregate are absent; the NodeManager it returns has the configured
\* vault, the configured identity if it has a vault and none otherwise, and no
\* authorities, whatever authorities config was supplied.
C24_SkipDefaultsLeavesResolvedState ==
    (cr.called /\ cr.skip_defaults)
        => /\ disk.vault_path \in {cr.before.vault_path, ConfiguredVaultPath}
           /\ disk.identity \in {cr.before.identity, ConfiguredIdentity}
           /\ cr.local.present => cr.local.authorities = Absent
           /\ cr.err = NoError
                => /\ nm.present
                   /\ nm.vault = ConfiguredVaultPath
                   /\ nm.identity = IF ConfiguredVaultPath # None
                                    THEN ConfiguredIdentity ELSE None
                   /\ nm.authorities = Absent
                   /\ disk.vault_path = ConfiguredVaultPath
                   /\ disk.identity = ConfiguredIdentity

\* a create with skip_defaults on a fresh directory, given an authorities
\* config, has returned a NodeManager without vault, identity or authorities
C24_Witness ==
    /\ cr.called
    /\ cr.skip_defaults
    /\ cr.before = FreshConfig
    /\ ~cr.identity_override.some
    /\ cr.ac = Some(<<GoodAuthority>>)
    /\ cr.err = NoError
    /\ nm.present
    /\ nm.vault = None
    /\ nm.identity = None
    /\ nm.authorities = Absent
    /\ disk.vault_path = None

\* the arms that match a method and the segments of a path
MatchingArms(method, segments) ==
    {i \in DOMAIN Arms : Matches(Arms[i], method, segments)}

\* the path most likely to match both arms i and j: at every position the
\* literal of arm i, else the literal of arm j, else any segment; it has the
\* length of the longer of the two patterns
Meet(i, j) ==
    LET a == Arms[i].p
        b == Arms[j].p
        n == IF Len(a) >= Len(b) THEN Len(a) ELSE Len(b)
    IN  [k \in 1..n |->
            IF k <= Len(a) /\ a[k] # AnySegment THEN a[k]
            ELSE IF k <= Len(b) /\ b[k] # AnySegment THEN b[k]
            ELSE "id.1"]

\* some (method, segments) pair matches both arm i and arm j
Overlap(i, j) ==
    \E m \in {Arms[i].m, Arms[j].m} :
        \E p \in {Meet(i, j), Instantiate(Arms[i].p), Instantiate(Arms[j].p)} :
            Matches(Arms[i], m, p) /\ Matches(Arms[j], m, p)

\* C25: the request that handle_request has dispatched matched at most one
\* of the arms other than `_`, the one taken if any and the `_` arm
\* otherwise, so the last matching arm is the first; and the arm taken
\* overlaps with no other arm (every arm is taken by some request).
C25_ArmsPairwiseDisjoint ==
    (TookRequest /\ last.msg.method # None)
        => LET ms == MatchingArms(last.msg.method, path_segments(last.msg.path))
           IN  /\ Cardinality(ms) <= 1
               /\ ms = IF last.arm = 0 THEN {} ELSE {last.arm}
               /\ last.arm # 0
                    => \A j \in DOMAIN Arms : j # last.arm => ~Overlap(last.arm, j)

\* a request whose path has a segment bound to a name was dispatched to the
\* one arm that matches it
C25_Witness ==
    /\ TookRequest
    /\ last.msg.method = "Get"
    /\ last.msg.path = <<"subscription", "id.1">>
    /\ MatchingArms("Get", <<"subscription", "id.1">>) = {last.arm}
    /\ HandlerOf(last.arm) = "get_subscription"

\* create on a fresh node directory was rejected by the validation of its options
RejectedOnFreshDirectory ==
    /\ cr.called
    /\ cr.before = FreshConfig
    /\ cr.err = Error("Invalid", "Invalid NodeManager options")

\* C26: a create on a fresh node directory that the validation rejected has
\* left the default authenticated_storage_path persisted, and with an identity
\* override the vault path, the identity bytes and the override flag too (and
\* no vault path and no identity without one); it returned before the
\* aggregate was built.
C26_RejectedCreateHasPersisted ==
    RejectedOnFreshDirectory
        => /\ disk.authenticated_storage_path = DefaultLocation
           /\ disk = IF cr.identity_override.some
                     THEN NodeManConfig(DefaultVaultPath, cr.identity_override.v.identity,
                                        DefaultLocation, TRUE)
                     ELSE NodeManConfig(None, None, DefaultLocation, FALSE)
           /\ ~cr.local.present
           /\ ~nm.present
           /\ pc = "create_failed"

\* such a create, called with an identity override
C26_Witness ==
    /\ RejectedOnFreshDirectory
    /\ cr.identity_override = Some(IdentityOverride)
    /\ cr.enable_credential_checks
    /\ ~cr.ac.some
    /\ disk.authenticated_storage_path = DefaultLocation
    /\ disk.vault_path = DefaultVaultPath
    /\ disk.identity = "identity.override"
    /\ disk.identity_was_overridden

\* C27: in a create, the vault lookup of configure_authorities never fails;
\* an import error, which only configure_authorities gives, comes from a call
\* with skip_defaults = false and an authorities config, on an aggregate that
\* has its vault and its identity (create_defaults had succeeded); the
\* aggregate of a create that fails has no authorities; and the NodeManager
\* that create returns has authorities exactly when skip_defaults is false, an
\* authorities config was supplied and every entry of it imports, and then it
\* has its vault and its identity.
C27_AuthoritiesConfiguredAfterDefaults ==
    cr.called
        => /\ cr.err # ApiErrorGeneric("Vault doesn't exist")
           /\ cr.err = CollaboratorError("PublicIdentity::import")
                => /\ ~cr.skip_defaults
                   /\ cr.ac.some
                   /\ cr.local.present
                   /\ vault(cr.local).ok
                   /\ identity(cr.local).ok
           /\ (cr.err # NoError /\ cr.local.present) => cr.local.authorities = Absent
           /\ cr.err = NoError
                => /\ nm.present
                   /\ authorities(nm).ok
                        <=> (~cr.skip_defaults /\ cr.ac.some /\ ~ImportFails(cr.ac.v))
                   /\ authorities(nm).ok => (vault(nm).ok /\ identity(nm).ok)

\* a create on a fresh directory created the default vault and then
\* configured the authorities with it
C27_Witness ==
    /\ cr.called
    /\ cr.before = FreshConfig
    /\ ~cr.identity_override.some
    /\ ~cr.skip_defaults
    /\ cr.ac = Some(<<GoodAuthority>>)
    /\ cr.err = NoError
    /\ nm.vault = DefaultVaultPath
    /\ nm.identity = "identity.created"
    /\ nm.authorities = Some(<<GoodAuthority>>)

\* poll_token has returned
PollReturned == cmd.fn = "poll_token" /\ pc = "returned"

\* the provider's last answer carried an error that is not polled again on
\* (an error body that does not decode counted as one)
NonRetryableAnswer ==
    /\ cmd.answer.kind = "answer"
    /\ cmd.answer.status # "OK"
    /\ cmd.answer.body \notin RetryableErrors

\* the sleeps that poll_token has made: one for each token request sent but
\* the last, and one for the last too when it is about to send again
Retried ==
    IF pc = "line353" \/ cmd.polls = 0 THEN cmd.polls ELSE cmd.polls - 1

\* C28 (as stated): poll_token returns a token only after an answer with
\* status OK; it sleeps only after an answer with an error to poll again on;
\* it returns "failed to receive tokens" on any other error; and its loop
\* has ended only if the provider's last answer had status OK or carried an
\* error that is not polled again on.
C28_TerminatesOnlyOnOkOrFinalError ==
    /\ (PollReturned /\ cmd.ret.ok)
          => (cmd.answer.kind = "answer" /\ cmd.answer.status = "OK")
    /\ pc = "line386" => (cmd.answer.kind = "answer" /\ cmd.answer.status # "OK"
                           /\ cmd.answer.body \in RetryableErrors)
    /\ (PollReturned /\ NonRetryableAnswer /\ cmd.answer.body # Undecodable)
          => cmd.ret = Err(anyhow("failed to receive tokens"))
    /\ (PollReturned /\ cmd.polls > 0)
          => (cmd.answer.kind = "answer" /\ (cmd.answer.status = "OK" \/ NonRetryableAnswer))

\* C28 (amended): as stated, but poll_token has also returned, with that
\* error, if the http client could not be built (before any token request),
\* if a token request could not be sent, if the body of an answer did not
\* decode, or if the terminal write after an OK answer failed.  It never
\* returns after an answer with an error to poll again on, however many
\* requests it has sent; it sleeps the device code's interval once after
\* each such answer, and after a sleep it sends the next request.
C28_TerminatesOnOkFinalErrorOrFailure ==
    /\ [](/\ (PollReturned /\ cmd.ret.ok)
                => /\ cmd.answer = Answer("OK", cmd.ret.value)
                   /\ cmd.terminal = <<"Token received!">>
          /\ pc = "line386"
                => (cmd.answer.kind = "answer" /\ cmd.answer.status # "OK"
                    /\ cmd.answer.body \in RetryableErrors)
          /\ (PollReturned /\ cmd.ret = Err(anyhow("failed to receive tokens")))
                <=> (PollReturned /\ NonRetryableAnswer /\ cmd.answer.body # Undecodable)
          /\ PollReturned
                => \/ cmd.polls = 0 /\ cmd.ret = Err(anyhow("Error building http client"))
                   \/ cmd.answer = SendFailed /\ ~cmd.ret.ok
                   \/ cmd.answer.kind = "answer" /\ cmd.answer.status = "OK"
                   \/ NonRetryableAnswer
          /\ cmd.fn = "poll_token" => cmd.waited = cmd.dc.interval * Retried)
    /\ [][pc = "line386" => (pc' = "line353" /\ cmd'.waited = cmd.waited + cmd.dc.interval
                               /\ cmd'.polls = cmd.polls)]_vars

\* the token received at the last of several polls, after a sleep of the
\* interval for each of the earlier ones
C28_Witness ==
    /\ PollReturned
    /\ cmd.ret = Ok("token.1")
    /\ cmd.polls = MaxPolls
    /\ cmd.dc.interval = 5
    /\ cmd.waited = 5 * (MaxPolls - 1)
    /\ cmd.terminal = <<"Token received!">>

\* the steps of run_impl in the order of its statements
RunOrder ==
    <<"start_embedded_node", "enroll", "default_space", "default_project",
      "update_enrolled_identity", "delete_embedded_node", "report">>

\* C29: the steps begun are the first ones of RunOrder, each begun after the
\* one before it had succeeded; if run_impl returned an error before the
\* deletion, the error is that of the step that failed (the last one begun,
\* or the header's write), the node is not deleted and "Enrolled
\* successfully!" is not on the terminal; that line is written only after
\* the node was deleted.
C29_StepsInOrderAndFailureStops ==
    cmd.fn = "run_impl"
        => /\ Len(cmd.steps) <= Len(RunOrder)
           /\ cmd.steps = SubSeq(RunOrder, 1, Len(cmd.steps))
           /\ Len(cmd.steps) >= 2 => (cmd.node_name # None /\ pc # "line65")
           /\ Len(cmd.steps) >= 3 => cmd.enrolled # None
           /\ Len(cmd.steps) >= 4 => cmd.space # None
           /\ Len(cmd.steps) >= 5 => cmd.project # None
           /\ Len(cmd.steps) >= 6 => cmd.identity_updated
           /\ cmd.node = "deleted" <=> Len(cmd.steps) >= 6
           /\ (pc = "returned" /\ Len(cmd.steps) < 6)
                => /\ ~cmd.ret.ok
                   /\ cmd.ret.error \in
                         IF cmd.steps = <<>> THEN {StepError("header")}
                         ELSE {StepError(cmd.steps[Len(cmd.steps)]), anyhow("Failed to enroll")}
                   /\ cmd.node # "deleted"
                   /\ \A i \in DOMAIN cmd.terminal : cmd.terminal[i] # "Enrolled successfully!"
           /\ (\E i \in DOMAIN cmd.terminal : cmd.terminal[i] = "Enrolled successfully!")
                => (cmd.node = "deleted" /\ pc = "returned" /\ cmd.ret = Ok("()")
                    /\ cmd.steps = RunOrder)

\* update_enrolled_identity failed: run_impl returned its error with the
\* embedded node still running
C29_Witness ==
    /\ cmd.fn = "run_impl"
    /\ pc = "returned"
    /\ cmd.steps = SubSeq(RunOrder, 1, 5)
    /\ cmd.ret = Err(StepError("update_enrolled_identity"))
    /\ cmd.node = "running"
    /\ cmd.project # None
    /\ cmd.terminal = <<"header">>

====
